---- MODULE Spec2Model ----
(***************************************************************************)
(* A model of igloo-ts, the fluent wrapper over a WebGL rendering context. *)
(* The context is modelled by the part of its state the wrappers touch     *)
(* (buffer bindings and buffer stores) and by the list of entry points the *)
(* last wrapper operation called, as a mock context would record them.     *)
(***************************************************************************)
EXTENDS Integers, Sequences, FiniteSets, TLC

\* ------------------------------------------------------------------------
\* Bounds of the model
\* ------------------------------------------------------------------------
MaxBuffers == 2          \* Buffer wrappers constructed on the context
MaxLen == 1              \* elements in an update payload
MaxQueries == 2          \* location queries counted per name
MaxTextures == 2         \* Texture wrappers constructed on the context
MaxFramebuffers == 2     \* Framebuffer wrappers constructed on the context
MaxChars == 2            \* characters in a shader source string or URL
MaxRequests == 2         \* asynchronous requests Igloo.fetch sends

\* ------------------------------------------------------------------------
\* Values of the host language and of the context
\* ------------------------------------------------------------------------
undefined == "undefined"             \* an omitted argument
NoHandle == 0                        \* the null resource handle
UNSET == -1                          \* Buffer.size before the first update
NoByteLength == -2                   \* the byteLength of a value that has none

Targets == {"ARRAY_BUFFER", "ELEMENT_ARRAY_BUFFER"}
Usages == {"STATIC_DRAW"}               \* usage hints a caller passes
DataKinds == {"Array", "Uint8Array"}      \* payloads a caller passes
Payloads == [kind : DataKinds, length : 0..MaxLen]

VARIABLES
    gl,          \* the rendering context: bindings, stores, error flags, calls of the last operation
    buffers,     \* the Buffer wrappers, in order of construction
    lastLen,     \* per Buffer: byte length of the payload of its previous update (history)
    program,     \* the Program wrapper: construction status, linked interface, this.vars
    queries,     \* per name: location queries made to the context so far (history)
    referenced,  \* names some uniform/uniformi/matrix/attrib call has named (history)
    unresolved,  \* names for which a uniform location query returned null (history)
    cachedBy,    \* per name: the kind of call that filled its this.vars entry (history)
    textures,    \* the Texture wrappers, in order of construction
    framebuffers, \* the Framebuffer wrappers, in order of construction
    igloo,       \* the Igloo facade, once constructed
    requests,    \* the asynchronous requests Igloo.fetch has sent, in order
    err,         \* the exception the last operation threw, if any
    op           \* the wrapper operation that ran last, with its arguments

vars == <<gl, buffers, lastLen, program, queries, referenced, unresolved, cachedBy,
          textures, framebuffers, igloo, requests, err, op>>

\* exceptions: every throw in the source is a plain Error with a message
NoError == [thrown |-> FALSE, message |-> <<>>]
Error(message) == [thrown |-> TRUE, message |-> message]

\* ------------------------------------------------------------------------
\* The rendering context (the entry points the wrappers call)
\* ------------------------------------------------------------------------
Called(g, c) == [g EXCEPT !.calls = Append(@, c)]

\* a new operation starts with an empty call record
Fresh(g) == [g EXCEPT !.calls = <<>>]

\* the driver's error flags. A context keeps one flag-code pair, so that a
\* further error does not affect the recorded code, or several, one per code
\* (OpenGL ES 2.0, section 2.5); an entry point that raises no error is
\* passed NO_ERROR
FlagPairs == {"one", "several"}
Raise(g, code) ==
    IF code = "NO_ERROR" \/ (g.flagPairs = "one" /\ g.errors # {}) THEN g
    ELSE [g EXCEPT !.errors = @ \cup {code}]

\* what getError may return: the code of one of the pairs that are set, in
\* unspecified order; it clears that pair
Reported(g) == IF g.errors = {} THEN {"NO_ERROR"} ELSE g.errors
glGetError(g, code) ==
    [Called(g, [call |-> "getError", result |-> code]) EXCEPT !.errors = @ \ {code}]

glCreateBuffer(g) ==
    LET h == Len(g.bufferStore) + 1
    IN  [Called(g, [call |-> "createBuffer", result |-> h])
            EXCEPT !.bufferStore = Append(@, [size |-> 0, usage |-> undefined])]

glBindBuffer(g, target, buffer) ==
    [Called(g, [call |-> "bindBuffer", target |-> target, buffer |-> buffer])
        EXCEPT !.bufferBinding[target] = buffer]

\* bytes per element of a typed array; a plain Array has no byteLength
BYTES_PER_ELEMENT(kind) ==
    CASE kind = "Float32Array" -> 4
      [] kind = "Uint8Array" -> 1

byteLength(data) ==
    IF data.kind = "Array" THEN NoByteLength
    ELSE BYTES_PER_ELEMENT(data.kind) * data.length

\* bufferData replaces the store of the buffer bound at target
glBufferData(g, target, data, usage) ==
    LET b == g.bufferBinding[target]
        g1 == Called(g, [call |-> "bufferData", target |-> target,
                         data |-> data, usage |-> usage])
    IN  IF b = NoHandle THEN g1
        ELSE [g1 EXCEPT !.bufferStore[b] =
                 [size |-> byteLength(data), usage |-> usage]]

\* bufferSubData overwrites a range of the bound buffer's store in place
glBufferSubData(g, target, offset, data) ==
    Called(g, [call |-> "bufferSubData", target |-> target,
               offset |-> offset, data |-> data])

\* ------------------------------------------------------------------------
\* Buffer
\* ------------------------------------------------------------------------
\* new Float32Array(array)
Float32Array(data) == [kind |-> "Float32Array", length |-> data.length]

\* Buffer.bind as a context transformer
BufferBind(g, self) == glBindBuffer(g, self.target, self.buffer)

\* Buffer.update without the in-place path: every update reallocates
BufferUpdate_AlwaysRealloc(g, self, data0, usage0) ==
    LET data == IF data0.kind = "Array" THEN Float32Array(data0) ELSE data0
        usage == IF usage0 = undefined THEN "DYNAMIC_DRAW" ELSE usage0
        g1 == BufferBind(g, self)
    IN  [gl |-> glBufferData(g1, self.target, data, usage),
         self |-> [self EXCEPT !.size = byteLength(data)]]

\* Buffer.update that reallocates but does not record the new size
BufferUpdate_SizeNotRecorded(g, self, data0, usage0) ==
    LET data == IF data0.kind = "Array" THEN Float32Array(data0) ELSE data0
        usage == IF usage0 = undefined THEN "DYNAMIC_DRAW" ELSE usage0
        g1 == BufferBind(g, self)
    IN  IF self.size # byteLength(data)
        THEN [gl |-> glBufferData(g1, self.target, data, usage),
              self |-> self]
        ELSE [gl |-> glBufferSubData(g1, self.target, 0, data),
              self |-> self]

\* Buffer.update that uploads without binding its own buffer first
BufferUpdate_NoBind(g, self, data0, usage0) ==
    LET data == IF data0.kind = "Array" THEN Float32Array(data0) ELSE data0
        usage == IF usage0 = undefined THEN "DYNAMIC_DRAW" ELSE usage0
    IN  IF self.size # byteLength(data)
        THEN [gl |-> glBufferData(g, self.target, data, usage),
              self |-> [self EXCEPT !.size = byteLength(data)]]
        ELSE [gl |-> glBufferSubData(g, self.target, 0, data),
              self |-> self]

\* Buffer.update as a transformer of the pair (context, wrapper)
BufferUpdate(g, self, data0, usage0) ==
    LET data == IF data0.kind = "Array" THEN Float32Array(data0) ELSE data0
        usage == IF usage0 = undefined THEN "DYNAMIC_DRAW" ELSE usage0
        g1 == BufferBind(g, self)
    IN  IF self.size # byteLength(data)
        THEN [gl |-> glBufferData(g1, self.target, data, usage),
              self |-> [self EXCEPT !.size = byteLength(data)]]
        ELSE [gl |-> glBufferSubData(g1, self.target, 0, data),
              self |-> self]

\* the Buffer constructor as a transformer of the context
BufferConstructor(g, target) ==
    LET g1 == glCreateBuffer(g)
    IN  [gl |-> g1,
         self |-> [buffer |-> Len(g1.bufferStore),
                   target |-> IF target = undefined THEN "ARRAY_BUFFER" ELSE target,
                   size |-> UNSET]]

\* new Buffer(gl, target?)
NewBuffer(target) ==
    /\ Len(buffers) < MaxBuffers
    /\ LET r == BufferConstructor(Fresh(gl), target)
       IN  /\ gl' = r.gl
           /\ buffers' = Append(buffers, r.self)
    /\ lastLen' = Append(lastLen, UNSET)
    /\ op' = [name |-> "Buffer", self |-> Len(buffers) + 1]
    /\ err' = NoError
    /\ UNCHANGED <<program, queries, referenced, unresolved,
                   cachedBy, textures, framebuffers, igloo, requests>>

\* buffer.bind()
Bind(i) ==
    /\ gl' = BufferBind(Fresh(gl), buffers[i])
    /\ op' = [name |-> "bind", self |-> i]
    /\ err' = NoError
    /\ UNCHANGED <<buffers, lastLen, program, queries, referenced, unresolved,
                   cachedBy, textures, framebuffers, igloo, requests>>

\* buffer.update(data, usage?)
Update(i, data, usage) ==
    LET r == BufferUpdate(Fresh(gl), buffers[i], data, usage)
    IN  /\ gl' = r.gl
        /\ buffers' = [buffers EXCEPT ![i] = r.self]
        /\ lastLen' = [lastLen EXCEPT ![i] = BYTES_PER_ELEMENT(
                           IF data.kind = "Array" THEN "Float32Array" ELSE data.kind)
                           * data.length]
        /\ op' = [name |-> "update", self |-> i, data |-> data, usage |-> usage,
                  prevLen |-> lastLen[i], sizeBefore |-> buffers[i].size]
        /\ err' = NoError
        /\ UNCHANGED <<program, queries, referenced, unresolved,
                   cachedBy, textures, framebuffers, igloo, requests>>

\* ------------------------------------------------------------------------
\* Program
\* ------------------------------------------------------------------------
\* an optional argument: omitted, or given with a value
None == <<>>
Some(x) == <<x>>
Given(arg) == Len(arg) = 1

\* the names callers refer to, and the identity of a name's location object
Names == {"tint", "points"}
NameId(name) == IF name = "tint" THEN 1 ELSE 2

\* values held in this.vars and passed as locations
JSnull == [type |-> "null", v |-> 0]
JSundefined == [type |-> "undefined", v |-> 0]
Number(n) == [type |-> "number", v |-> n]
UniformLocation(name) == [type |-> "WebGLUniformLocation", v |-> NameId(name)]

\* x == null
IsNullish(x) == x.type \in {"null", "undefined"}

\* the interfaces a linked program can have: its active uniforms and the
\* locations of its active attributes (-1 for a name that is none)
Interfaces ==
    {[uniforms |-> {"tint"}, attribs |-> [n \in Names |-> IF n = "points" THEN 0 ELSE -1]],
     [uniforms |-> Names, attribs |-> [n \in Names |-> IF n = "points" THEN 1 ELSE -1]],
     [uniforms |-> {}, attribs |-> [n \in Names |-> -1]]}

\* what the driver does with one shader, and with the program object
ShaderEnvs ==
    {[created |-> FALSE, compiles |-> FALSE, log |-> ""],
     [created |-> TRUE, compiles |-> TRUE, log |-> ""],
     [created |-> TRUE, compiles |-> FALSE, log |-> ""],
     [created |-> TRUE, compiles |-> FALSE, log |-> "ERROR: 0:1: syntax error"]}
LinkEnvs ==
    {[created |-> FALSE, links |-> FALSE, log |-> ""],
     [created |-> TRUE, links |-> TRUE, log |-> ""],
     [created |-> TRUE, links |-> FALSE, log |-> ""],
     [created |-> TRUE, links |-> FALSE, log |-> "ERROR: varying mismatch"]}

VertexHandle == 1
FragmentHandle == 2
ProgramHandle == 1

\* Program.makeShader: the context after it, and the shader or the exception
makeShader(g, type, source, handle, env) ==
    LET g1 == Called(g, [call |-> "createShader", type |-> type,
                         result |-> IF env.created THEN handle ELSE NoHandle])
        g2 == Called(g1, [call |-> "shaderSource", shader |-> handle, source |-> source])
        g3 == Called(g2, [call |-> "compileShader", shader |-> handle])
        g4 == Called(g3, [call |-> "getShaderParameter", shader |-> handle,
                          pname |-> "COMPILE_STATUS", result |-> env.compiles])
        g5 == Called(g4, [call |-> "getShaderInfoLog", shader |-> handle,
                          result |-> env.log])
    IN  IF ~env.created
        THEN [gl |-> g1, err |-> Error(<<"Failed to create shader">>)]
        ELSE IF env.compiles
        THEN [gl |-> g4, err |-> NoError]
        ELSE [gl |-> g5, err |-> Error(<<IF env.log = ""
                                          THEN "Failed to compile shader"
                                          ELSE env.log>>)]

\* a constructor that reads the compile status only after linking
ProgramConstructor_ChecksAfterLink(g, vertex, fragment, env) ==
    LET g1 == Called(g, [call |-> "createProgram",
                         result |-> IF env.link.created THEN ProgramHandle ELSE NoHandle])
        vs == makeShader(g1, "VERTEX_SHADER", vertex, VertexHandle, env.vs)
        g2 == Called(vs.gl, [call |-> "attachShader", program |-> ProgramHandle,
                             shader |-> VertexHandle])
        fs == makeShader(g2, "FRAGMENT_SHADER", fragment, FragmentHandle, env.fs)
        g3 == Called(fs.gl, [call |-> "attachShader", program |-> ProgramHandle,
                             shader |-> FragmentHandle])
        g4 == Called(g3, [call |-> "linkProgram", program |-> ProgramHandle])
    IN  IF ~env.link.created
        THEN [gl |-> g1, err |-> Error(<<"Failed to create program">>)]
        ELSE IF vs.err.thrown THEN [gl |-> g4, err |-> vs.err]
        ELSE IF fs.err.thrown THEN [gl |-> g4, err |-> fs.err]
        ELSE IF ~env.link.links
        THEN [gl |-> g4, err |-> Error(<<IF env.link.log = ""
                                          THEN "Failed to link program"
                                          ELSE env.link.log>>)]
        ELSE [gl |-> g4, err |-> NoError]

\* a constructor that links without reading the link status
ProgramConstructor_NoLinkCheck(g, vertex, fragment, env) ==
    LET g1 == Called(g, [call |-> "createProgram",
                         result |-> IF env.link.created THEN ProgramHandle ELSE NoHandle])
        vs == makeShader(g1, "VERTEX_SHADER", vertex, VertexHandle, env.vs)
        g2 == Called(vs.gl, [call |-> "attachShader", program |-> ProgramHandle,
                             shader |-> VertexHandle])
        fs == makeShader(g2, "FRAGMENT_SHADER", fragment, FragmentHandle, env.fs)
        g3 == Called(fs.gl, [call |-> "attachShader", program |-> ProgramHandle,
                             shader |-> FragmentHandle])
        g4 == Called(g3, [call |-> "linkProgram", program |-> ProgramHandle])
    IN  IF ~env.link.created
        THEN [gl |-> g1, err |-> Error(<<"Failed to create program">>)]
        ELSE IF vs.err.thrown THEN vs
        ELSE IF fs.err.thrown THEN fs
        ELSE [gl |-> g4, err |-> NoError]

\* new Program(gl, vertex, fragment): the context after it, and the exception
ProgramConstructor(g, vertex, fragment, env) ==
    LET g1 == Called(g, [call |-> "createProgram",
                         result |-> IF env.link.created THEN ProgramHandle ELSE NoHandle])
        vs == makeShader(g1, "VERTEX_SHADER", vertex, VertexHandle, env.vs)
        g2 == Called(vs.gl, [call |-> "attachShader", program |-> ProgramHandle,
                             shader |-> VertexHandle])
        fs == makeShader(g2, "FRAGMENT_SHADER", fragment, FragmentHandle, env.fs)
        g3 == Called(fs.gl, [call |-> "attachShader", program |-> ProgramHandle,
                             shader |-> FragmentHandle])
        g4 == Called(g3, [call |-> "linkProgram", program |-> ProgramHandle])
        g5 == Called(g4, [call |-> "getProgramParameter", program |-> ProgramHandle,
                          pname |-> "LINK_STATUS", result |-> env.link.links])
        g6 == Called(g5, [call |-> "getProgramInfoLog", program |-> ProgramHandle,
                          result |-> env.link.log])
    IN  IF ~env.link.created
        THEN [gl |-> g1, err |-> Error(<<"Failed to create program">>)]
        ELSE IF vs.err.thrown THEN vs
        ELSE IF fs.err.thrown THEN fs
        ELSE IF ~env.link.links
        THEN [gl |-> g6, err |-> Error(<<IF env.link.log = ""
                                          THEN "Failed to link program"
                                          ELSE env.link.log>>)]
        ELSE [gl |-> g5, err |-> NoError]

\* this.vars: the entries in insertion order, as for-in visits them
HasOwn(vs, name) == \E k \in 1..Len(vs) : vs[k].name = name
Lookup(vs, name) ==
    IF HasOwn(vs, name)
    THEN (vs[CHOOSE k \in 1..Len(vs) : vs[k].name = name]).loc
    ELSE JSundefined
Store(vs, name, loc) ==
    IF HasOwn(vs, name)
    THEN [k \in 1..Len(vs) |-> IF vs[k].name = name
                               THEN [name |-> name, loc |-> loc] ELSE vs[k]]
    ELSE Append(vs, [name |-> name, loc |-> loc])

glGetUniformLocation(g, self, name) ==
    LET loc == IF name \in self.uniforms THEN UniformLocation(name) ELSE JSnull
    IN  [gl |-> Called(g, [call |-> "getUniformLocation", program |-> ProgramHandle,
                           name |-> name, result |-> loc]),
         result |-> loc]

glGetAttribLocation(g, self, name) ==
    LET loc == Number(self.attribs[name])
    IN  [gl |-> Called(g, [call |-> "getAttribLocation", program |-> ProgramHandle,
                           name |-> name, result |-> loc]),
         result |-> loc]

\* the entry points of the context that upload uniforms
GLUniformMethods ==
    {"uniform1fv", "uniform2fv", "uniform3fv", "uniform4fv",
     "uniform1iv", "uniform2iv", "uniform3iv", "uniform4iv",
     "uniformMatrix2fv", "uniformMatrix3fv", "uniformMatrix4fv",
     "uniform1f", "uniform1i"}

\* (gl as any)[method](...args): calling a property the context does not
\* have throws a TypeError, and so does the binding when the location
\* argument is neither a WebGLUniformLocation nor null
Invoke(g, method, c) ==
    IF method \notin GLUniformMethods
    THEN [gl |-> g, err |-> Error(<<"TypeError: not a function", method>>)]
    ELSE IF c.location.type \notin {"WebGLUniformLocation", "null", "undefined"}
    THEN [gl |-> Called(g, c), err |-> Error(<<"TypeError: not a WebGLUniformLocation", method>>)]
    ELSE [gl |-> Called(g, c), err |-> NoError]

\* the values a caller passes to uniform(): the class Object.prototype.toString
\* reports, the typeof, and the length of an array
ArrayValue(tag, n) == [tag |-> tag, typeof |-> "object", length |-> n]
ScalarValue(tag, typeof) == [tag |-> tag, typeof |-> typeof, length |-> 0]

\* Igloo.isArray: the class name is Array or one of the typed arrays the
\* regular expression lists
isArray(object) ==
    object.tag \in {"Array", "Float32Array", "Float64Array", "Int16Array",
                    "Int32Array", "Int8Array", "Uint16Array", "Uint32Array",
                    "Uint8Array", "Uint8ClampedArray"}

\* truth of an optional boolean or number argument
Truthy(arg) == Given(arg) /\ arg[1] \notin {FALSE}
TruthyNumber(arg) == Given(arg) /\ arg[1] # 0

\* an upload that sizes a vector by the array alone, whatever dim says
UniformUpload_IgnoresDim(g, v, value, i, dim) ==
    IF isArray(value)
    THEN LET l == value.length
             method == "uniform" \o ToString(l) \o (IF Truthy(i) THEN "i" ELSE "f") \o "v"
         IN  Invoke(g, method, [call |-> method, location |-> v, value |-> value])
    ELSE IF value.typeof \in {"number", "boolean"}
    THEN IF Truthy(i)
         THEN Invoke(g, "uniform1i", [call |-> "uniform1i", location |-> v, value |-> value])
         ELSE Invoke(g, "uniform1f", [call |-> "uniform1f", location |-> v, value |-> value])
    ELSE [gl |-> g, err |-> Error(<<"Invalid uniform value: ", value.tag>>)]

\* an upload that takes numbers as scalars but not booleans
UniformUpload_NumbersOnly(g, v, value, i, dim) ==
    IF isArray(value)
    THEN LET l == IF TruthyNumber(dim) THEN dim[1] ELSE value.length
             method == "uniform" \o ToString(l) \o (IF Truthy(i) THEN "i" ELSE "f") \o "v"
         IN  Invoke(g, method, [call |-> method, location |-> v, value |-> value])
    ELSE IF value.typeof \in {"number"}
    THEN IF Truthy(i)
         THEN Invoke(g, "uniform1i", [call |-> "uniform1i", location |-> v, value |-> value])
         ELSE Invoke(g, "uniform1f", [call |-> "uniform1f", location |-> v, value |-> value])
    ELSE [gl |-> g, err |-> Error(<<"Invalid uniform value: ", value.tag>>)]

\* the part of Program.uniform after the location is known
UniformUpload(g, v, value, i, dim) ==
    IF isArray(value)
    THEN LET l == IF TruthyNumber(dim) THEN dim[1] ELSE value.length
             method == "uniform" \o ToString(l) \o (IF Truthy(i) THEN "i" ELSE "f") \o "v"
         IN  Invoke(g, method, [call |-> method, location |-> v, value |-> value])
    ELSE IF value.typeof \in {"number", "boolean"}
    THEN IF Truthy(i)
         THEN Invoke(g, "uniform1i", [call |-> "uniform1i", location |-> v, value |-> value])
         ELSE Invoke(g, "uniform1f", [call |-> "uniform1f", location |-> v, value |-> value])
    ELSE [gl |-> g, err |-> Error(<<"Invalid uniform value: ", value.tag>>)]

\* Program.uniform as a transformer of (context, wrapper), with the exception
ProgramUniform(g, self, name, value, i, dim) ==
    LET miss == IsNullish(Lookup(self.vars, name))
        q == glGetUniformLocation(g, self, name)
    IN  IF miss /\ IsNullish(q.result)
        THEN [gl |-> q.gl, self |-> self,
              err |-> Error(<<"Failed to locate uniform", name>>)]
        ELSE LET self1 == IF miss THEN [self EXCEPT !.vars = Store(@, name, q.result)]
                          ELSE self
                 r == UniformUpload(IF miss THEN q.gl ELSE g,
                                    Lookup(self1.vars, name), value, i, dim)
             IN  [gl |-> r.gl, self |-> self1, err |-> r.err]

\* half the length in place of its square root
SqrtString_Half(n) == ToString(n \div 2)

\* Math.sqrt, as it prints in a method name
SqrtString(n) ==
    IF \E k \in 0..n : k * k = n
    THEN ToString(CHOOSE k \in 0..n : k * k = n)
    ELSE "NaI"

\* Program.matrix
ProgramMatrix(g, self, name, matrix, transpose) ==
    LET miss == IsNullish(Lookup(self.vars, name))
        q == glGetUniformLocation(g, self, name)
    IN  IF miss /\ IsNullish(q.result)
        THEN [gl |-> q.gl, self |-> self,
              err |-> Error(<<"Failed to locate uniform", name>>)]
        ELSE LET self1 == IF miss THEN [self EXCEPT !.vars = Store(@, name, q.result)]
                          ELSE self
                 method == "uniformMatrix" \o SqrtString(matrix.length) \o "fv"
                 r == Invoke(IF miss THEN q.gl ELSE g, method,
                             [call |-> method, location |-> Lookup(self1.vars, name),
                              transpose |-> Truthy(transpose), value |-> matrix])
             IN  [gl |-> r.gl, self |-> self1, err |-> r.err]

\* Program.uniformi
ProgramUniformi(g, self, name, value) ==
    ProgramUniform(g, self, name, value, Some(TRUE), None)

\* a vertex attribute index is unsigned: -1 is beyond MAX_VERTEX_ATTRIBS and an
\* INVALID_VALUE
IndexError(loc) ==
    IF loc.type = "number" /\ loc.v < 0 THEN "INVALID_VALUE" ELSE "NO_ERROR"

\* an attrib that describes the layout before it binds the buffer
ProgramAttrib_PointerBeforeBind(g, self, name, value, size, stride) ==
    LET miss == IsNullish(Lookup(self.vars, name))
        q == glGetAttribLocation(g, self, name)
        self1 == IF miss THEN [self EXCEPT !.vars = Store(@, name, q.result)] ELSE self
        loc == Lookup(self1.vars, name)
        g1 == Called(IF miss THEN q.gl ELSE g,
                     [call |-> "enableVertexAttribArray", index |-> loc])
        g2 == Called(g1, [call |-> "vertexAttribPointer", index |-> loc, size |-> size,
                          type |-> "FLOAT", normalized |-> FALSE,
                          stride |-> IF Given(stride) THEN stride[1] ELSE 0,
                          offset |-> 0])
    IN  [gl |-> BufferBind(g2, value), self |-> self1, err |-> NoError]

\* an attrib that tests the cache entry for truth, not for null
ProgramAttrib_TruthTest(g, self, name, value, size, stride) ==
    LET cached == Lookup(self.vars, name)
        miss == IsNullish(cached) \/ (cached.type = "number" /\ cached.v = 0)
        q == glGetAttribLocation(g, self, name)
        self1 == IF miss THEN [self EXCEPT !.vars = Store(@, name, q.result)] ELSE self
        loc == Lookup(self1.vars, name)
        g1 == BufferBind(IF miss THEN q.gl ELSE g, value)
        g2 == Called(g1, [call |-> "enableVertexAttribArray", index |-> loc])
        g3 == Called(g2, [call |-> "vertexAttribPointer", index |-> loc, size |-> size,
                          type |-> "FLOAT", normalized |-> FALSE,
                          stride |-> IF Given(stride) THEN stride[1] ELSE 0,
                          offset |-> 0])
    IN  [gl |-> g3, self |-> self1, err |-> NoError]

\* Program.attrib
ProgramAttrib(g, self, name, value, size, stride) ==
    LET miss == IsNullish(Lookup(self.vars, name))
        q == glGetAttribLocation(g, self, name)
        self1 == IF miss THEN [self EXCEPT !.vars = Store(@, name, q.result)] ELSE self
        loc == Lookup(self1.vars, name)
        g1 == BufferBind(IF miss THEN q.gl ELSE g, value)
        g2 == Raise(Called(g1, [call |-> "enableVertexAttribArray", index |-> loc]),
                    IndexError(loc))
        g3 == Raise(Called(g2, [call |-> "vertexAttribPointer", index |-> loc,
                                size |-> size, type |-> "FLOAT", normalized |-> FALSE,
                                stride |-> IF Given(stride) THEN stride[1] ELSE 0,
                                offset |-> 0]),
                    IndexError(loc))
    IN  [gl |-> g3, self |-> self1, err |-> NoError]

\* gl.drawArrays / gl.drawElements as draw calls them; raised is the error the
\* driver finds in this draw call, if any
glDraw(g, mode, count, type, raised) ==
    Raise(IF type = undefined
          THEN Called(g, [call |-> "drawArrays", mode |-> mode, first |-> 0,
                          count |-> count])
          ELSE Called(g, [call |-> "drawElements", mode |-> mode, count |-> count,
                          type |-> type, offset |-> 0]),
          raised)

\* a draw that never reads the driver's error flag
ProgramDraw_NoErrorQuery(g, mode, count, type, raised, flag) ==
    [gl |-> glDraw(g, mode, count, type, raised), err |-> NoError]

\* a draw that throws for the error of its own draw call only
ProgramDraw_OwnErrorOnly(g, mode, count, type, raised, flag) ==
    [gl |-> glGetError(glDraw(g, mode, count, type, raised), flag),
     err |-> IF raised # "NO_ERROR" THEN Error(<<"WebGL rendering error">>)
             ELSE NoError]

\* Program.draw; flag is what getError returns after the draw call
ProgramDraw(g, mode, count, type, raised, flag) ==
    LET g1 == glDraw(g, mode, count, type, raised)
        g2 == glGetError(g1, flag)
    IN  [gl |-> g2,
         err |-> IF flag # "NO_ERROR" THEN Error(<<"WebGL rendering error">>)
                 ELSE NoError]

\* Program.disable: for-in over this.vars
RECURSIVE DisableFrom(_, _, _)
DisableFrom(g, vs, k) ==
    IF k > Len(vs) THEN g
    ELSE DisableFrom(IF vs[k].loc.type = "number"
                     THEN Raise(Called(g, [call |-> "disableVertexAttribArray",
                                           index |-> vs[k].loc]),
                                IndexError(vs[k].loc))
                     ELSE g,
                     vs, k + 1)

\* a disable that does not look at the type of the cached value
ProgramDisable_EveryEntry(g, self) ==
    [g EXCEPT !.calls = @ \o [k \in 1..Len(self.vars) |->
                                 [call |-> "disableVertexAttribArray",
                                  index |-> self.vars[k].loc]]]

ProgramDisable(g, self) == DisableFrom(g, self.vars, 1)

\* ------------------------------------------------------------------------
\* The rendering context: textures, framebuffers, renderbuffers
\* ------------------------------------------------------------------------
TextureUnits == {0, 1}
ColorAttachments == {0, 1}

\* a texture without storage, a framebuffer without attachments, a
\* renderbuffer name that has no storage and has not been bound yet
NoImage == [width |-> 0, height |-> 0, image |-> "none"]
NoAttachments == [color |-> [i \in ColorAttachments |-> NoHandle], depth |-> NoHandle]
NoStorage == [width |-> 0, height |-> 0, bound |-> FALSE]

\* the texture bound to TEXTURE_2D at the active unit
BoundTexture(g) == g.textureBinding[g.activeTexture]

glCreateTexture(g) ==
    LET h == Len(g.textureStore) + 1
    IN  [Called(g, [call |-> "createTexture", result |-> h])
            EXCEPT !.textureStore = Append(@, NoImage)]

glActiveTexture(g, unit) ==
    [Called(g, [call |-> "activeTexture", unit |-> unit])
        EXCEPT !.activeTexture = unit]

glBindTexture(g, texture) ==
    [Called(g, [call |-> "bindTexture", target |-> "TEXTURE_2D", texture |-> texture])
        EXCEPT !.textureBinding[g.activeTexture] = texture]

glTexParameteri(g, pname, param) ==
    Called(g, [call |-> "texParameteri", target |-> "TEXTURE_2D",
               pname |-> pname, param |-> param])

\* a pixel source: null, an array (no dimensions of its own) or an image
NullSource == [kind |-> "null", width |-> 0, height |-> 0]

\* texImage2D replaces the image of the texture bound at the active unit; with
\* no texture bound there it is an INVALID_OPERATION, with a negative width
\* or height an INVALID_VALUE, and replaces nothing
glTexImage2D(g, internalFormat, size, format, type, source) ==
    LET t == BoundTexture(g)
        g1 == Called(g, [call |-> "texImage2D", target |-> "TEXTURE_2D", level |-> 0,
                         internalFormat |-> internalFormat, size |-> size,
                         format |-> format, type |-> type, source |-> source])
        image == IF Given(size)
                 THEN [width |-> size[1][1], height |-> size[1][2],
                       image |-> IF source = NullSource THEN "blank" ELSE source.kind]
                 ELSE [width |-> source.width, height |-> source.height,
                       image |-> source.kind]
    IN  IF image.width < 0 \/ image.height < 0 THEN Raise(g1, "INVALID_VALUE")
        ELSE IF t = NoHandle THEN Raise(g1, "INVALID_OPERATION")
        ELSE [g1 EXCEPT !.textureStore[t] = image]

\* texSubImage2D rewrites a region of the bound texture's image in place; with
\* no texture bound, or one without an image, it is an INVALID_OPERATION
glTexSubImage2D(g, xoff, yoff, size, format, type, source) ==
    LET t == BoundTexture(g)
        g1 == Called(g, [call |-> "texSubImage2D", target |-> "TEXTURE_2D", level |-> 0,
                         xoff |-> xoff, yoff |-> yoff, size |-> size,
                         format |-> format, type |-> type, source |-> source])
    IN  IF t = NoHandle \/ g.textureStore[t].image = "none"
        THEN Raise(g1, "INVALID_OPERATION")
        ELSE [g1 EXCEPT !.textureStore[t].image = "patched"]

\* copyTexImage2D replaces the image of the texture bound at the active unit
\* by a region read from the bound framebuffer
glCopyTexImage2D(g, internalFormat, x, y, width, height) ==
    LET t == BoundTexture(g)
        g1 == Called(g, [call |-> "copyTexImage2D", target |-> "TEXTURE_2D", level |-> 0,
                         internalFormat |-> internalFormat, x |-> x, y |-> y,
                         width |-> width, height |-> height, border |-> 0])
    IN  IF t = NoHandle THEN Raise(g1, "INVALID_OPERATION")
        ELSE [g1 EXCEPT !.textureStore[t] =
                 [width |-> width, height |-> height, image |-> "framebuffer"]]

glCreateFramebuffer(g) ==
    LET h == Len(g.framebufferStore) + 1
    IN  [Called(g, [call |-> "createFramebuffer", result |-> h])
            EXCEPT !.framebufferStore = Append(@, NoAttachments)]

glBindFramebuffer(g, framebuffer) ==
    [Called(g, [call |-> "bindFramebuffer", target |-> "FRAMEBUFFER",
                framebuffer |-> framebuffer])
        EXCEPT !.framebufferBinding = framebuffer]

\* framebufferTexture2D attaches to the bound framebuffer; with the default
\* framebuffer bound it is an INVALID_OPERATION and attaches nothing
glFramebufferTexture2D(g, i, texture) ==
    LET f == g.framebufferBinding
        g1 == Called(g, [call |-> "framebufferTexture2D", target |-> "FRAMEBUFFER",
                         attachment |-> i, textarget |-> "TEXTURE_2D",
                         texture |-> texture, level |-> 0])
    IN  IF f = NoHandle THEN Raise(g1, "INVALID_OPERATION")
        ELSE [g1 EXCEPT !.framebufferStore[f].color[i] = texture]

glCreateRenderbuffer(g) ==
    LET h == Len(g.renderbufferStore) + 1
    IN  [Called(g, [call |-> "createRenderbuffer", result |-> h])
            EXCEPT !.renderbufferStore = Append(@, NoStorage)]

glBindRenderbuffer(g, renderbuffer) ==
    LET g1 == [Called(g, [call |-> "bindRenderbuffer", target |-> "RENDERBUFFER",
                          renderbuffer |-> renderbuffer])
                  EXCEPT !.renderbufferBinding = renderbuffer]
    IN  IF renderbuffer = NoHandle THEN g1
        ELSE [g1 EXCEPT !.renderbufferStore[renderbuffer].bound = TRUE]

\* renderbufferStorage sizes the renderbuffer bound at RENDERBUFFER; with none
\* bound it is an INVALID_OPERATION and sizes nothing
glRenderbufferStorage(g, internalFormat, width, height) ==
    LET r == g.renderbufferBinding
        g1 == Called(g, [call |-> "renderbufferStorage", target |-> "RENDERBUFFER",
                         internalFormat |-> internalFormat,
                         width |-> width, height |-> height])
    IN  IF r = NoHandle THEN Raise(g1, "INVALID_OPERATION")
        ELSE [g1 EXCEPT !.renderbufferStore[r].width = width,
                        !.renderbufferStore[r].height = height]

\* framebufferRenderbuffer attaches to the bound framebuffer a renderbuffer
\* that has been bound before; otherwise it is an INVALID_OPERATION
glFramebufferRenderbuffer(g, renderbuffer) ==
    LET f == g.framebufferBinding
        g1 == Called(g, [call |-> "framebufferRenderbuffer", target |-> "FRAMEBUFFER",
                         attachment |-> "DEPTH_ATTACHMENT",
                         renderbuffertarget |-> "RENDERBUFFER",
                         renderbuffer |-> renderbuffer])
    IN  IF f = NoHandle \/ ~g.renderbufferStore[renderbuffer].bound
        THEN Raise(g1, "INVALID_OPERATION")
        ELSE [g1 EXCEPT !.framebufferStore[f].depth = renderbuffer]

\* ------------------------------------------------------------------------
\* Texture
\* ------------------------------------------------------------------------
\* x == null ? d : x for an optional argument
OrDefault(arg, d) == IF Given(arg) THEN arg[1] ELSE d

\* new Texture(gl, format?, wrap?, filter?, type?, internalFormat?)
TextureConstructor(g, format, wrap, filter, type, internalFormat) ==
    LET g1 == glCreateTexture(g)
        texture == Len(g1.textureStore)
        g2 == glBindTexture(g1, texture)
        w == OrDefault(wrap, "CLAMP_TO_EDGE")
        f == OrDefault(filter, "LINEAR")
        g3 == glTexParameteri(g2, "TEXTURE_WRAP_S", w)
        g4 == glTexParameteri(g3, "TEXTURE_WRAP_T", w)
        g5 == glTexParameteri(g4, "TEXTURE_MIN_FILTER", f)
        g6 == glTexParameteri(g5, "TEXTURE_MAG_FILTER", f)
    IN  [gl |-> g6,
         self |-> [texture |-> texture,
                   format |-> OrDefault(format, "RGBA"),
                   internalFormat |-> OrDefault(internalFormat, "RGBA"),
                   type |-> OrDefault(type, "UNSIGNED_BYTE")]]

\* Texture.bind(unit?)
TextureBind(g, self, unit) ==
    glBindTexture(IF Given(unit) THEN glActiveTexture(g, unit[1]) ELSE g, self.texture)

\* Texture.blank
TextureBlank(g, self, width, height) ==
    glTexImage2D(TextureBind(g, self, None), self.internalFormat,
                 Some(<<width, height>>), self.format, self.type, NullSource)

\* source instanceof Array: a typed array of the texture's type
Converted(self, source) ==
    IF source.kind = "Array"
    THEN [source EXCEPT !.kind = IF self.type = "FLOAT" THEN "Float32Array"
                                 ELSE "Uint8Array"]
    ELSE source

\* width != null && height != null
Sized(width, height) ==
    IF Given(width) /\ Given(height) THEN Some(<<width[1], height[1]>>) ELSE None

\* Texture.set(source, width?, height?)
TextureSet(g, self, source, width, height) ==
    glTexImage2D(TextureBind(g, self, None), self.internalFormat,
                 Sized(width, height), self.format, self.type, Converted(self, source))

\* Texture.subset(source, xoff, yoff, width?, height?)
TextureSubset(g, self, source, xoff, yoff, width, height) ==
    glTexSubImage2D(TextureBind(g, self, None), xoff, yoff,
                    Sized(width, height), self.format, self.type,
                    Converted(self, source))

\* Texture.copy
TextureCopy(g, self, x, y, width, height) ==
    glCopyTexImage2D(g, self.internalFormat, x, y, width, height)

\* ------------------------------------------------------------------------
\* Framebuffer
\* ------------------------------------------------------------------------
\* new Framebuffer(gl): one argument, so a framebuffer is created
FramebufferConstructor(g) ==
    LET g1 == glCreateFramebuffer(g)
    IN  [gl |-> g1,
         self |-> [framebuffer |-> Len(g1.framebufferStore), renderbuffer |-> NoHandle]]

\* new Framebuffer(gl, null): two arguments, so the given framebuffer is kept
DefaultFramebuffer == [framebuffer |-> NoHandle, renderbuffer |-> NoHandle]

\* Framebuffer.bind, Framebuffer.unbind
FramebufferBind(g, self) == glBindFramebuffer(g, self.framebuffer)
FramebufferUnbind(g, self) == glBindFramebuffer(g, NoHandle)

\* Framebuffer.attach(texture, i = 0)
FramebufferAttach(g, self, texture, i0) ==
    LET i == OrDefault(i0, 0)
        g1 == IF i = 0 THEN FramebufferBind(g, self) ELSE g
    IN  glFramebufferTexture2D(g1, i, texture.texture)

\* an attachDepth that binds the framebuffer only when it creates the
\* renderbuffer
FramebufferAttachDepth_BindsWhenCreating(g, self, width, height) ==
    IF self.renderbuffer = NoHandle
    THEN LET g1 == FramebufferBind(g, self)
             g2 == glCreateRenderbuffer(g1)
             renderbuffer == Len(g2.renderbufferStore)
             g3 == glRenderbufferStorage(g2, "DEPTH_COMPONENT16", width, height)
             g4 == glFramebufferRenderbuffer(g3, renderbuffer)
         IN  [gl |-> g4, self |-> [self EXCEPT !.renderbuffer = renderbuffer]]
    ELSE [gl |-> g, self |-> self]

\* Framebuffer.attachDepth(width, height)
FramebufferAttachDepth(g, self, width, height) ==
    LET g1 == FramebufferBind(g, self)
    IN  IF self.renderbuffer = NoHandle
        THEN LET g2 == glCreateRenderbuffer(g1)
                 renderbuffer == Len(g2.renderbufferStore)
                 g3 == glRenderbufferStorage(g2, "DEPTH_COMPONENT16", width, height)
                 g4 == glFramebufferRenderbuffer(g3, renderbuffer)
             IN  [gl |-> g4, self |-> [self EXCEPT !.renderbuffer = renderbuffer]]
        ELSE [gl |-> g1, self |-> self]

\* a facade framebuffer that attaches the texture at the second color slot
IglooFramebuffer_SecondSlot(g, texture) ==
    LET r == FramebufferConstructor(g)
    IN  IF Given(texture)
        THEN [gl |-> FramebufferAttach(r.gl, r.self, texture[1], Some(1)),
              self |-> r.self]
        ELSE r

\* Igloo.framebuffer(texture?)
IglooFramebuffer(g, texture) ==
    LET r == FramebufferConstructor(g)
    IN  IF Given(texture)
        THEN [gl |-> FramebufferAttach(r.gl, r.self, texture[1], None), self |-> r.self]
        ELSE r

\* ------------------------------------------------------------------------
\* Igloo (the facade)
\* ------------------------------------------------------------------------
\* the rendering context as a value, and the error of getContext
Context == [type |-> "WebGL2RenderingContext", v |-> 0]
ContextError == Error(<<"Could not create WebGL context.">>)

\* a getContext whose noerror silences a thrown exception only: a canvas that
\* returns null still raises
IglooGetContext_NullAlwaysThrows(g, yields, options, noerror) ==
    LET g1 == Called(g, [call |-> "getContext", contextId |-> "webgl2",
                         options |-> OrDefault(options, "{}")])
        ctx == IF yields = "context" THEN Context ELSE JSnull
    IN  IF IsNullish(ctx) /\ (yields = "null" \/ ~Truthy(noerror))
        THEN [gl |-> g1, result |-> JSundefined, err |-> ContextError]
        ELSE [gl |-> g1, result |-> ctx, err |-> NoError]

\* Igloo.getContext(canvas, options?, noerror?); yields is what the canvas's
\* own getContext does: return the context, return null, or throw
IglooGetContext(g, yields, options, noerror) ==
    LET g1 == Called(g, [call |-> "getContext", contextId |-> "webgl2",
                         options |-> OrDefault(options, "{}")])
        ctx == IF yields = "context" THEN Context ELSE JSnull
    IN  IF IsNullish(ctx) /\ ~Truthy(noerror)
        THEN [gl |-> g1, result |-> JSundefined, err |-> ContextError]
        ELSE [gl |-> g1, result |-> ctx, err |-> NoError]

\* no facade yet; the facade once constructed around a context
NoIgloo == [status |-> "none"]
ReadyIgloo(canvas) ==
    [status |-> "ready", gl |-> Context, canvas |-> canvas,
     defaultFramebuffer |-> DefaultFramebuffer]

\* new Igloo(gl, options?): gl is a canvas or a rendering context
IglooConstructor(g, arg, options) ==
    IF arg.kind = "HTMLCanvasElement"
    THEN LET r == IglooGetContext(g, arg.yields, options, None)
         IN  IF r.err.thrown
             THEN [gl |-> r.gl, self |-> NoIgloo, err |-> r.err]
             ELSE [gl |-> r.gl, self |-> ReadyIgloo("canvas"), err |-> NoError]
    ELSE [gl |-> g, self |-> ReadyIgloo("canvas"), err |-> NoError]

\* a facade array that keeps the dynamic hint of Buffer.update
IglooArray_DefaultHint(g, data, usage) ==
    LET b == BufferConstructor(g, "ARRAY_BUFFER")
    IN  IF Given(data)
        THEN BufferUpdate(b.gl, b.self, data[1], OrDefault(usage, undefined))
        ELSE b

\* Igloo.array(data?, usage?)
IglooArray(g, data, usage) ==
    LET b == BufferConstructor(g, "ARRAY_BUFFER")
    IN  IF Given(data)
        THEN BufferUpdate(b.gl, b.self, data[1], OrDefault(usage, "STATIC_DRAW"))
        ELSE b

\* Igloo.elements(data?, usage?)
IglooElements(g, data, usage) ==
    LET b == BufferConstructor(g, "ELEMENT_ARRAY_BUFFER")
    IN  IF Given(data)
        THEN BufferUpdate(b.gl, b.self, data[1], OrDefault(usage, "STATIC_DRAW"))
        ELSE b

\* strings are sequences of characters; \s matches the whitespace ones
Whitespace == {" ", "\n"}
Chars == {"a"} \cup Whitespace
Strings == UNION {[1..n -> Chars] : n \in 0..MaxChars}
EmptyText == <<>>

\* Igloo.looksLikeURL: /\s/.exec(string) == null
looksLikeURL(string) == ~\E k \in 1..Len(string) : string[k] \in Whitespace

\* a function value passed as an optional argument; Boolean(f) of it
Function == [type |-> "function", v |-> 0]
Boolean(arg) == Given(arg) /\ arg[1].type \in {"function", "object"}

\* what the network makes of one request: a response with its text, or an
\* error; a synchronous send throws on a network error
ResponseTexts == {<<"x", " ", "y">>, <<"x">>}
Responses ==
    [outcome : {"load"}, text : ResponseTexts]
        \cup {[outcome |-> "error", text |-> EmptyText]}
NetworkError == Error(<<"NetworkError">>)

\* a request that has been sent and whose response has not arrived: url, the
\* callback onload holds, and the texts the callback has been invoked with
Sent(url, callback) ==
    [url |-> url, callback |-> callback, state |-> "sent", responseText |-> EmptyText,
     delivered |-> <<>>]

\* a fetch that always opens the request asynchronously
IglooFetch_AlwaysAsync(g, url, callback, net) ==
    LET g1 == Called(g, [call |-> "open", method |-> "GET", url |-> url,
                         async |-> TRUE])
        g2 == Called(g1, [call |-> "send"])
    IN  [gl |-> g2, result |-> EmptyText, err |-> NoError,
         sent |-> <<Sent(url, callback)>>]

\* Igloo.fetch(url, callback?): the context after it, the text returned, the
\* exception, and the request left in flight
IglooFetch(g, url, callback, net) ==
    LET async == Boolean(callback)
        g1 == Called(g, [call |-> "open", method |-> "GET", url |-> url,
                         async |-> async])
        g2 == Called(g1, [call |-> "send"])
    IN  IF async
        THEN [gl |-> g2, result |-> EmptyText, err |-> NoError,
              sent |-> <<Sent(url, callback)>>]
        ELSE IF net.outcome = "load"
        THEN [gl |-> g2, result |-> net.text, err |-> NoError, sent |-> <<>>]
        ELSE [gl |-> g2, result |-> EmptyText, err |-> NetworkError, sent |-> <<>>]

\* the response of a request in flight arrives: xhr.onload, when a callback
\* was given, calls it with xhr.responseText
XHRLoad(request, text) ==
    LET loaded == [request EXCEPT !.state = "loaded", !.responseText = text]
    IN  IF Given(request.callback)
        THEN [loaded EXCEPT !.delivered = Append(@, loaded.responseText)]
        ELSE loaded

\* the request fails: no load event, so onload does not run
XHRError(request) == [request EXCEPT !.state = "failed"]

\* the transform a caller passes: it rewrites the text
Transform(text) == <<"#">> \o text
Transformed(g, transform, text) ==
    IF Given(transform)
    THEN [gl |-> Called(g, [call |-> "transform", text |-> text,
                            result |-> Transform(text)]),
          result |-> Transform(text)]
    ELSE [gl |-> g, result |-> text]

\* a text used as it is given
Literal(g, text) == [gl |-> g, result |-> text, err |-> NoError, sent |-> <<>>]

\* a facade program that transforms the strings before it fetches
IglooProgram_TransformsFirst(g, vertex, fragment, transform, nets, env) ==
    LET tv == Transformed(g, transform, vertex)
        tf == Transformed(tv.gl, transform, fragment)
        fv == IF looksLikeURL(tv.result)
              THEN IglooFetch(tf.gl, tv.result, None, nets[1])
              ELSE Literal(tf.gl, tv.result)
        ff == IF looksLikeURL(tf.result)
              THEN IglooFetch(fv.gl, tf.result, None, nets[2])
              ELSE Literal(fv.gl, tf.result)
    IN  IF fv.err.thrown THEN [gl |-> fv.gl, err |-> fv.err]
        ELSE IF ff.err.thrown THEN [gl |-> ff.gl, err |-> ff.err]
        ELSE ProgramConstructor(ff.gl, fv.result, ff.result, env)

\* igloo.program(vertex, fragment, transform?); nets is what the network
\* makes of the request for the vertex and for the fragment source
IglooProgram(g, vertex, fragment, transform, nets, env) ==
    LET fv == IF looksLikeURL(vertex) THEN IglooFetch(g, vertex, None, nets[1])
              ELSE Literal(g, vertex)
        ff == IF looksLikeURL(fragment) THEN IglooFetch(fv.gl, fragment, None, nets[2])
              ELSE Literal(fv.gl, fragment)
        tv == Transformed(ff.gl, transform, fv.result)
        tf == Transformed(tv.gl, transform, ff.result)
    IN  IF fv.err.thrown THEN [gl |-> fv.gl, err |-> fv.err]
        ELSE IF ff.err.thrown THEN [gl |-> ff.gl, err |-> ff.err]
        ELSE ProgramConstructor(tf.gl, tv.result, tf.result, env)

InitGL ==
    [calls |-> <<>>,
     bufferBinding |-> [t \in Targets |-> NoHandle],
     bufferStore |-> <<>>,
     activeTexture |-> 0,
     textureBinding |-> [u \in TextureUnits |-> NoHandle],
     textureStore |-> <<>>,
     framebufferBinding |-> NoHandle,
     framebufferStore |-> <<>>,
     renderbufferBinding |-> NoHandle,
     renderbufferStore |-> <<>>,
     errors |-> {},
     flagPairs |-> "one"]

NoProgram == [status |-> "none"]

\* the context right after its creation: nothing constructed yet
Init ==
    /\ gl = InitGL
    /\ buffers = <<>>
    /\ lastLen = <<>>
    /\ program = NoProgram
    /\ queries = [n \in Names |-> 0]
    /\ referenced = {}
    /\ unresolved = {}
    /\ cachedBy = [n \in Names |-> "none"]
    /\ textures = <<>>
    /\ framebuffers = <<>>
    /\ igloo = NoIgloo
    /\ requests = <<>>
    /\ err = NoError
    /\ op = [name |-> "none"]

\* Buffer wrappers on one context
NextBuffer ==
    \/ \E target \in Targets \cup {undefined} : NewBuffer(target)
    \/ \E i \in 1..Len(buffers) : Bind(i)
    \/ \E i \in 1..Len(buffers), data \in Payloads, usage \in Usages \cup {undefined} :
           Update(i, data, usage)

SpecBuffer == Init /\ [][NextBuffer]_vars

\* ------------------------------------------------------------------------
\* A Program and the Buffer it draws from, on one context
\* ------------------------------------------------------------------------
UniformValues ==
    {ArrayValue("Float32Array", 3), ArrayValue("Array", 4),
     ScalarValue("Number", "number"), ScalarValue("Boolean", "boolean"),
     ScalarValue("Null", "object"), ScalarValue("String", "string")}
MatrixValues ==
    {ArrayValue("Array", 4), ArrayValue("Float32Array", 9), ArrayValue("Array", 16),
     ArrayValue("Array", 5)}
Flags == {None, Some(TRUE), Some(FALSE)}
Transposes == {None, Some(TRUE)}
Dims == {None, Some(2)}
Strides == {None, Some(8)}
ErrorFlags == {"NO_ERROR", "INVALID_OPERATION"}

\* location queries for a name among the calls of one operation
RECURSIVE QueryCount(_, _)
QueryCount(calls, name) ==
    IF calls = <<>> THEN 0
    ELSE (IF Head(calls).call \in {"getUniformLocation", "getAttribLocation"}
             /\ Head(calls).name = name
          THEN 1 ELSE 0) + QueryCount(Tail(calls), name)

\* names a uniform location query of one operation did not find
NotFound(calls) ==
    {n \in Names : \E k \in 1..Len(calls) :
        /\ calls[k].call = "getUniformLocation"
        /\ calls[k].name = n
        /\ calls[k].result.type = "null"}

Counted(calls) == [n \in Names |-> queries[n] + QueryCount(calls, n)]

Linked == program.status = "linked"

\* the kind of call that filled the cache entry of a name: the entry is filled
\* by the call that finds it empty and leaves a location in it
CachedThrough(kind, name, self1) ==
    IF IsNullish(Lookup(program.vars, name)) /\ ~IsNullish(Lookup(self1.vars, name))
    THEN [cachedBy EXCEPT ![name] = kind]
    ELSE cachedBy

\* new Program(gl, vertex, fragment), with what the driver makes of it
Construct(vertex, fragment, env, iface) ==
    /\ program.status # "linked"
    /\ LET r == ProgramConstructor(Fresh(gl), vertex, fragment, env)
       IN  /\ gl' = r.gl
           /\ err' = r.err
           /\ program' = IF r.err.thrown THEN [status |-> "failed"]
                         ELSE [status |-> "linked", uniforms |-> iface.uniforms,
                               attribs |-> iface.attribs, vars |-> <<>>]
    /\ queries' = [n \in Names |-> 0]
    /\ referenced' = {}
    /\ unresolved' = {}
    /\ cachedBy' = [n \in Names |-> "none"]
    /\ op' = [name |-> "Program", env |-> env]
    /\ UNCHANGED <<buffers, lastLen, textures, framebuffers, igloo, requests>>

\* program.use()
Use ==
    /\ Linked
    /\ gl' = Called(Fresh(gl), [call |-> "useProgram", program |-> ProgramHandle])
    /\ err' = NoError
    /\ op' = [name |-> "use"]
    /\ UNCHANGED <<buffers, lastLen, program, queries, referenced, unresolved,
                   cachedBy, textures, framebuffers, igloo, requests>>

\* program.uniform(name, value, i?, dim?)
Uniform(name, value, i, dim) ==
    /\ Linked
    /\ queries[name] < MaxQueries
    /\ LET r == ProgramUniform(Fresh(gl), program, name, value, i, dim)
       IN  /\ gl' = r.gl
           /\ program' = r.self
           /\ err' = r.err
           /\ queries' = Counted(r.gl.calls)
           /\ unresolved' = unresolved \cup NotFound(r.gl.calls)
           /\ cachedBy' = CachedThrough("uniform", name, r.self)
    /\ referenced' = referenced \cup {name}
    /\ op' = [name |-> "uniform", var |-> name, value |-> value, i |-> i, dim |-> dim]
    /\ UNCHANGED <<buffers, lastLen, textures, framebuffers, igloo, requests>>

\* program.uniformi(name, value)
Uniformi(name, value) ==
    /\ Linked
    /\ queries[name] < MaxQueries
    /\ LET r == ProgramUniformi(Fresh(gl), program, name, value)
       IN  /\ gl' = r.gl
           /\ program' = r.self
           /\ err' = r.err
           /\ queries' = Counted(r.gl.calls)
           /\ unresolved' = unresolved \cup NotFound(r.gl.calls)
           /\ cachedBy' = CachedThrough("uniform", name, r.self)
    /\ referenced' = referenced \cup {name}
    /\ op' = [name |-> "uniformi", var |-> name, value |-> value]
    /\ UNCHANGED <<buffers, lastLen, textures, framebuffers, igloo, requests>>

\* program.matrix(name, matrix, transpose?)
Matrix(name, matrix, transpose) ==
    /\ Linked
    /\ queries[name] < MaxQueries
    /\ LET r == ProgramMatrix(Fresh(gl), program, name, matrix, transpose)
       IN  /\ gl' = r.gl
           /\ program' = r.self
           /\ err' = r.err
           /\ queries' = Counted(r.gl.calls)
           /\ unresolved' = unresolved \cup NotFound(r.gl.calls)
           /\ cachedBy' = CachedThrough("uniform", name, r.self)
    /\ referenced' = referenced \cup {name}
    /\ op' = [name |-> "matrix", var |-> name, value |-> matrix, transpose |-> transpose]
    /\ UNCHANGED <<buffers, lastLen, textures, framebuffers, igloo, requests>>

\* program.attrib(name, buffer, size, stride?)
Attrib(name, b, size, stride) ==
    /\ Linked
    /\ queries[name] < MaxQueries
    /\ LET r == ProgramAttrib(Fresh(gl), program, name, buffers[b], size, stride)
       IN  /\ gl' = r.gl
           /\ program' = r.self
           /\ err' = r.err
           /\ queries' = Counted(r.gl.calls)
           /\ unresolved' = unresolved \cup NotFound(r.gl.calls)
           /\ cachedBy' = CachedThrough("attrib", name, r.self)
    /\ referenced' = referenced \cup {name}
    /\ op' = [name |-> "attrib", var |-> name, buffer |-> b, size |-> size,
              stride |-> stride]
    /\ UNCHANGED <<buffers, lastLen, textures, framebuffers, igloo, requests>>

\* program.draw(mode, count, type?); the driver may find an error in the draw
\* call, and getError returns one of the codes then pending
Draw(mode, count, type, raised) ==
    /\ Linked
    /\ \E flag \in Reported(glDraw(gl, mode, count, type, raised)) :
           LET r == ProgramDraw(Fresh(gl), mode, count, type, raised, flag)
           IN  /\ gl' = r.gl
               /\ err' = r.err
    /\ op' = [name |-> "draw", mode |-> mode, count |-> count, type |-> type,
              raised |-> raised, pending |-> gl.errors]
    /\ UNCHANGED <<buffers, lastLen, program, queries, referenced, unresolved,
                   cachedBy, textures, framebuffers, igloo, requests>>

\* program.disable()
Disable ==
    /\ Linked
    /\ gl' = ProgramDisable(Fresh(gl), program)
    /\ err' = NoError
    /\ op' = [name |-> "disable", varsBefore |-> program.vars]
    /\ UNCHANGED <<buffers, lastLen, program, queries, referenced, unresolved,
                   cachedBy, textures, framebuffers, igloo, requests>>

\* the context after one Buffer, of either target, has been constructed on it
InitProgram ==
    /\ gl = glCreateBuffer(InitGL)
    /\ \E target \in Targets :
           buffers = <<[buffer |-> 1, target |-> target, size |-> UNSET]>>
    /\ lastLen = <<UNSET>>
    /\ program = NoProgram
    /\ queries = [n \in Names |-> 0]
    /\ referenced = {}
    /\ unresolved = {}
    /\ cachedBy = [n \in Names |-> "none"]
    /\ textures = <<>>
    /\ framebuffers = <<>>
    /\ igloo = NoIgloo
    /\ requests = <<>>
    /\ err = NoError
    /\ op = [name |-> "Buffer", self |-> 1]

NextProgram ==
    \/ \E env \in [vs : ShaderEnvs, fs : ShaderEnvs, link : LinkEnvs],
          iface \in Interfaces :
           Construct("vertex source", "fragment source", env, iface)
    \/ Use
    \/ \E name \in Names, value \in UniformValues, i \in Flags, dim \in Dims :
           Uniform(name, value, i, dim)
    \/ \E name \in Names, value \in UniformValues : Uniformi(name, value)
    \/ \E name \in Names, matrix \in MatrixValues, transpose \in Transposes :
           Matrix(name, matrix, transpose)
    \/ \E name \in Names, b \in 1..Len(buffers), stride \in Strides :
           Attrib(name, b, 2, stride)
    \/ \E type \in {undefined, "UNSIGNED_SHORT"}, raised \in ErrorFlags :
           Draw("TRIANGLE_STRIP", 4, type, raised)
    \/ Disable

SpecProgram == InitProgram /\ [][NextProgram]_vars

\* ------------------------------------------------------------------------
\* Texture wrappers on one context
\* ------------------------------------------------------------------------
Frozen == UNCHANGED <<buffers, lastLen, program, queries, referenced, unresolved,
                      cachedBy, igloo, requests>>

\* the optional arguments of the Texture constructor that callers pass
TextureOptions ==
    {[format |-> None, wrap |-> None, filter |-> None, type |-> None,
      internalFormat |-> None],
     [format |-> Some("RGB"), wrap |-> Some("REPEAT"), filter |-> Some("NEAREST"),
      type |-> Some("FLOAT"), internalFormat |-> Some("RGB32F")]}
ArraySource == [kind |-> "Array", width |-> 0, height |-> 0]
ImageSource == [kind |-> "HTMLImageElement", width |-> 64, height |-> 64]
UnitArgs == {None, Some(1)}

\* new Texture(gl, ...)
NewTexture(o) ==
    /\ Len(textures) < MaxTextures
    /\ LET r == TextureConstructor(Fresh(gl), o.format, o.wrap, o.filter, o.type,
                                   o.internalFormat)
       IN  /\ gl' = r.gl
           /\ textures' = Append(textures, r.self)
    /\ op' = [name |-> "Texture", self |-> Len(textures) + 1]
    /\ err' = NoError
    /\ UNCHANGED framebuffers
    /\ Frozen

\* texture.bind(unit?)
BindTexture(t, unit) ==
    /\ gl' = TextureBind(Fresh(gl), textures[t], unit)
    /\ op' = [name |-> "bindTexture", self |-> t, unit |-> unit]
    /\ err' = NoError
    /\ UNCHANGED <<textures, framebuffers>>
    /\ Frozen

\* texture.blank(width, height)
Blank(t, width, height) ==
    /\ gl' = TextureBlank(Fresh(gl), textures[t], width, height)
    /\ op' = [name |-> "blank", self |-> t, width |-> width, height |-> height]
    /\ err' = NoError
    /\ UNCHANGED <<textures, framebuffers>>
    /\ Frozen

\* texture.set(source, width?, height?)
Set(t, source, width, height) ==
    /\ gl' = TextureSet(Fresh(gl), textures[t], source, width, height)
    /\ op' = [name |-> "set", self |-> t, source |-> source, width |-> width,
              height |-> height]
    /\ err' = NoError
    /\ UNCHANGED <<textures, framebuffers>>
    /\ Frozen

\* texture.subset(source, xoff, yoff, width?, height?)
Subset(t, source, xoff, yoff, width, height) ==
    /\ gl' = TextureSubset(Fresh(gl), textures[t], source, xoff, yoff, width, height)
    /\ op' = [name |-> "subset", self |-> t, source |-> source, xoff |-> xoff,
              yoff |-> yoff, width |-> width, height |-> height]
    /\ err' = NoError
    /\ UNCHANGED <<textures, framebuffers>>
    /\ Frozen

\* texture.copy(x, y, width, height)
Copy(t, x, y, width, height) ==
    /\ gl' = TextureCopy(Fresh(gl), textures[t], x, y, width, height)
    /\ op' = [name |-> "copy", self |-> t, x |-> x, y |-> y, width |-> width,
              height |-> height]
    /\ err' = NoError
    /\ UNCHANGED <<textures, framebuffers>>
    /\ Frozen

NextTexture ==
    \/ \E o \in TextureOptions : NewTexture(o)
    \/ \E t \in 1..Len(textures), unit \in UnitArgs : BindTexture(t, unit)
    \/ \E t \in 1..Len(textures) : Blank(t, 64, 64)
    \/ \E t \in 1..Len(textures) :
           \/ Set(t, ArraySource, Some(64), Some(64))
           \/ Set(t, ImageSource, None, None)
    \/ \E t \in 1..Len(textures) : Subset(t, ArraySource, 0, 0, Some(32), Some(32))
    \/ \E t \in 1..Len(textures) : Copy(t, 0, 0, 32, 32)

SpecTexture == Init /\ [][NextTexture]_vars

\* ------------------------------------------------------------------------
\* Framebuffer wrappers and their color attachments
\* ------------------------------------------------------------------------
\* new Framebuffer(gl)
NewFramebuffer ==
    /\ Len(framebuffers) < MaxFramebuffers
    /\ LET r == FramebufferConstructor(Fresh(gl))
       IN  /\ gl' = r.gl
           /\ framebuffers' = Append(framebuffers, r.self)
    /\ op' = [name |-> "Framebuffer", self |-> Len(framebuffers) + 1]
    /\ err' = NoError
    /\ UNCHANGED textures
    /\ Frozen

\* igloo.framebuffer(texture?)
MakeFramebuffer(t) ==
    /\ igloo.status = "ready"
    /\ Len(framebuffers) < MaxFramebuffers
    /\ LET r == IglooFramebuffer(Fresh(gl),
                                 IF Given(t) THEN Some(textures[t[1]]) ELSE None)
       IN  /\ gl' = r.gl
           /\ framebuffers' = Append(framebuffers, r.self)
    /\ op' = [name |-> "framebuffer", self |-> Len(framebuffers) + 1, texture |-> t,
              bound |-> gl.framebufferBinding]
    /\ err' = NoError
    /\ UNCHANGED textures
    /\ Frozen

\* framebuffer.bind()
BindFramebuffer(f) ==
    /\ gl' = FramebufferBind(Fresh(gl), framebuffers[f])
    /\ op' = [name |-> "bindFramebuffer", self |-> f]
    /\ err' = NoError
    /\ UNCHANGED <<textures, framebuffers>>
    /\ Frozen

\* framebuffer.unbind()
UnbindFramebuffer(f) ==
    /\ gl' = FramebufferUnbind(Fresh(gl), framebuffers[f])
    /\ op' = [name |-> "unbindFramebuffer", self |-> f]
    /\ err' = NoError
    /\ UNCHANGED <<textures, framebuffers>>
    /\ Frozen

\* framebuffer.attach(texture, i?)
Attach(f, t, i) ==
    /\ gl' = FramebufferAttach(Fresh(gl), framebuffers[f], textures[t], i)
    /\ op' = [name |-> "attach", self |-> f, texture |-> t, i |-> i]
    /\ err' = NoError
    /\ UNCHANGED <<textures, framebuffers>>
    /\ Frozen

\* framebuffer.attachDepth(width, height)
AttachDepth(f, width, height) ==
    /\ LET r == FramebufferAttachDepth(Fresh(gl), framebuffers[f], width, height)
       IN  /\ gl' = r.gl
           /\ framebuffers' = [framebuffers EXCEPT ![f] = r.self]
    /\ op' = [name |-> "attachDepth", self |-> f, width |-> width, height |-> height,
              first |-> framebuffers[f].renderbuffer = NoHandle,
              bound |-> gl.framebufferBinding]
    /\ err' = NoError
    /\ UNCHANGED textures
    /\ Frozen

\* the facade on a context on which two textures have been constructed
InitFramebuffer ==
    LET r1 == TextureConstructor(InitGL, None, None, None, None, None)
        r2 == TextureConstructor(r1.gl, None, None, None, None, None)
    IN  /\ gl = Fresh(r2.gl)
        /\ textures = <<r1.self, r2.self>>
        /\ framebuffers = <<>>
        /\ igloo = ReadyIgloo("canvas")
        /\ requests = <<>>
        /\ buffers = <<>>
        /\ lastLen = <<>>
        /\ program = NoProgram
        /\ queries = [n \in Names |-> 0]
        /\ referenced = {}
        /\ unresolved = {}
        /\ cachedBy = [n \in Names |-> "none"]
        /\ err = NoError
        /\ op = [name |-> "Igloo"]

AttachmentArgs == {None, Some(0), Some(1)}

NextFramebuffer ==
    \/ NewFramebuffer
    \/ \E t \in {None} \cup {Some(k) : k \in 1..Len(textures)} : MakeFramebuffer(t)
    \/ \E f \in 1..Len(framebuffers) : BindFramebuffer(f)
    \/ \E f \in 1..Len(framebuffers) : UnbindFramebuffer(f)
    \/ \E f \in 1..Len(framebuffers), t \in 1..Len(textures), i \in AttachmentArgs :
           Attach(f, t, i)

SpecFramebuffer == InitFramebuffer /\ [][NextFramebuffer]_vars

\* ------------------------------------------------------------------------
\* Framebuffer wrappers and their depth renderbuffers
\* ------------------------------------------------------------------------
DepthSizes == {<<64, 64>>, <<128, 32>>}

\* a context on which the caller has, or has not, bound a renderbuffer of
\* their own
InitDepth ==
    /\ \E own \in BOOLEAN :
           gl = IF own THEN Fresh(glBindRenderbuffer(glCreateRenderbuffer(InitGL), 1))
                ELSE InitGL
    /\ textures = <<>>
    /\ framebuffers = <<>>
    /\ igloo = NoIgloo
    /\ requests = <<>>
    /\ buffers = <<>>
    /\ lastLen = <<>>
    /\ program = NoProgram
    /\ queries = [n \in Names |-> 0]
    /\ referenced = {}
    /\ unresolved = {}
    /\ cachedBy = [n \in Names |-> "none"]
    /\ err = NoError
    /\ op = [name |-> "none"]

NextDepth ==
    \/ NewFramebuffer
    \/ \E f \in 1..Len(framebuffers) : BindFramebuffer(f)
    \/ \E f \in 1..Len(framebuffers) : UnbindFramebuffer(f)
    \/ \E f \in 1..Len(framebuffers), size \in DepthSizes :
           AttachDepth(f, size[1], size[2])

SpecDepth == InitDepth /\ [][NextDepth]_vars

\* ------------------------------------------------------------------------
\* The facade: construction and the buffers it makes
\* ------------------------------------------------------------------------
CanvasOutcomes == {"context", "null", "throws"}
IglooArgs ==
    {[kind |-> "HTMLCanvasElement", yields |-> y] : y \in CanvasOutcomes}
        \cup {[kind |-> "WebGL2RenderingContext", yields |-> "context"]}
ContextOptions == {None, Some("{ alpha: false }")}
FacadePayloads == {[kind |-> "Array", length |-> MaxLen],
                   [kind |-> "Uint8Array", length |-> 0]}
FacadeData == {None} \cup {Some(d) : d \in FacadePayloads}
FacadeUsages == {None, Some("STREAM_DRAW")}

FrozenFacade == UNCHANGED <<program, queries, referenced, unresolved, cachedBy,
                            textures, framebuffers>>

\* Igloo.getContext(canvas, options?, noerror?)
GetContext(yields, options, noerror) ==
    /\ LET r == IglooGetContext(Fresh(gl), yields, options, noerror)
       IN  /\ gl' = r.gl
           /\ err' = r.err
           /\ op' = [name |-> "getContext", yields |-> yields, noerror |-> noerror,
                     result |-> r.result]
    /\ UNCHANGED <<igloo, requests, buffers, lastLen>>
    /\ FrozenFacade

\* new Igloo(gl, options?)
NewIgloo(arg, options) ==
    /\ igloo.status = "none"
    /\ LET r == IglooConstructor(Fresh(gl), arg, options)
       IN  /\ gl' = r.gl
           /\ err' = r.err
           /\ igloo' = r.self
    /\ op' = [name |-> "Igloo", arg |-> arg]
    /\ UNCHANGED <<buffers, lastLen, requests>>
    /\ FrozenFacade

\* the byte length a facade buffer's first update records as its history
FirstLen(data) ==
    IF Given(data)
    THEN BYTES_PER_ELEMENT(IF data[1].kind = "Array" THEN "Float32Array"
                           ELSE data[1].kind) * data[1].length
    ELSE UNSET

\* igloo.array(data?, usage?)
Array(data, usage) ==
    /\ igloo.status = "ready"
    /\ Len(buffers) < MaxBuffers
    /\ LET r == IglooArray(Fresh(gl), data, usage)
       IN  /\ gl' = r.gl
           /\ buffers' = Append(buffers, r.self)
    /\ lastLen' = Append(lastLen, FirstLen(data))
    /\ op' = [name |-> "array", self |-> Len(buffers) + 1, data |-> data,
              usage |-> usage]
    /\ err' = NoError
    /\ UNCHANGED <<igloo, requests>>
    /\ FrozenFacade

\* igloo.elements(data?, usage?)
Elements(data, usage) ==
    /\ igloo.status = "ready"
    /\ Len(buffers) < MaxBuffers
    /\ LET r == IglooElements(Fresh(gl), data, usage)
       IN  /\ gl' = r.gl
           /\ buffers' = Append(buffers, r.self)
    /\ lastLen' = Append(lastLen, FirstLen(data))
    /\ op' = [name |-> "elements", self |-> Len(buffers) + 1, data |-> data,
              usage |-> usage]
    /\ err' = NoError
    /\ UNCHANGED <<igloo, requests>>
    /\ FrozenFacade

NextFacade ==
    \/ \E yields \in CanvasOutcomes, options \in ContextOptions, noerror \in Flags :
           GetContext(yields, options, noerror)
    \/ \E arg \in IglooArgs, options \in ContextOptions : NewIgloo(arg, options)
    \/ \E data \in FacadeData, usage \in FacadeUsages : Array(data, usage)
    \/ \E data \in FacadeData, usage \in FacadeUsages : Elements(data, usage)
    \/ \E i \in 1..Len(buffers), data \in FacadePayloads : Update(i, data, undefined)

SpecFacade == Init /\ [][NextFacade]_vars

\* ------------------------------------------------------------------------
\* Drawing after other wrapper operations, on one context
\* ------------------------------------------------------------------------
\* a program whose interface has no 'tint' attribute
RenderInterface ==
    [uniforms |-> {"tint"}, attribs |-> [n \in Names |-> IF n = "points" THEN 0 ELSE -1]]
BlankWidths == {-1, 64}

\* the context after the facade, a Buffer, a Texture, a Framebuffer and a
\* linked Program have been constructed on it; the context keeps one
\* flag-code pair or several
InitRender ==
    LET b == BufferConstructor(InitGL, "ARRAY_BUFFER")
        t == TextureConstructor(b.gl, None, None, None, None, None)
        f == FramebufferConstructor(t.gl)
    IN  /\ \E pairs \in FlagPairs : gl = [Fresh(f.gl) EXCEPT !.flagPairs = pairs]
        /\ buffers = <<b.self>>
        /\ lastLen = <<UNSET>>
        /\ textures = <<t.self>>
        /\ framebuffers = <<f.self>>
        /\ igloo = ReadyIgloo("canvas")
        /\ requests = <<>>
        /\ program = [status |-> "linked", uniforms |-> RenderInterface.uniforms,
                      attribs |-> RenderInterface.attribs, vars |-> <<>>]
        /\ queries = [n \in Names |-> 0]
        /\ referenced = {}
        /\ unresolved = {}
        /\ cachedBy = [n \in Names |-> "none"]
        /\ err = NoError
        /\ op = [name |-> "Program"]

NextRender ==
    \/ \E i \in 1..Len(buffers) : Bind(i)
    \/ \E t \in 1..Len(textures), width \in BlankWidths : Blank(t, width, 64)
    \/ \E f \in 1..Len(framebuffers), t \in 1..Len(textures), i \in {None, Some(1)} :
           Attach(f, t, i)
    \/ \E f \in 1..Len(framebuffers) : UnbindFramebuffer(f)
    \/ \E name \in Names, b \in 1..Len(buffers) : Attrib(name, b, 2, None)
    \/ Uniformi("tint", ScalarValue("Number", "number"))
    \/ Use
    \/ \E raised \in ErrorFlags : Draw("TRIANGLE_STRIP", 4, undefined, raised)

SpecRender == InitRender /\ [][NextRender]_vars

\* ------------------------------------------------------------------------
\* Igloo.fetch and the requests it leaves in flight
\* ------------------------------------------------------------------------
FrozenContext == UNCHANGED <<buffers, lastLen, program, queries, referenced,
                             unresolved, cachedBy, textures, framebuffers, igloo>>
FetchURLs == {<<"a">>, EmptyText}
Callbacks == {None, Some(Function)}

\* Igloo.fetch(url, callback?)
Fetch(url, callback, net) ==
    /\ Len(requests) < MaxRequests
    /\ LET r == IglooFetch(Fresh(gl), url, callback, net)
       IN  /\ gl' = r.gl
           /\ err' = r.err
           /\ requests' = requests \o r.sent
           /\ op' = [name |-> "fetch", url |-> url, callback |-> callback, net |-> net,
                     result |-> r.result]
    /\ FrozenContext

\* the load event of a request in flight
LoadEvent(k, text) ==
    /\ requests[k].state = "sent"
    /\ requests' = [requests EXCEPT ![k] = XHRLoad(@, text)]
    /\ gl' = Fresh(gl)
    /\ err' = NoError
    /\ op' = [name |-> "load event", request |-> k, text |-> text]
    /\ FrozenContext

\* the error event of a request in flight
ErrorEvent(k) ==
    /\ requests[k].state = "sent"
    /\ requests' = [requests EXCEPT ![k] = XHRError(@)]
    /\ gl' = Fresh(gl)
    /\ err' = NoError
    /\ op' = [name |-> "error event", request |-> k]
    /\ FrozenContext

NextFetch ==
    \/ \E url \in FetchURLs, callback \in Callbacks, net \in Responses :
           Fetch(url, callback, net)
    \/ \E k \in 1..Len(requests), text \in ResponseTexts : LoadEvent(k, text)
    \/ \E k \in 1..Len(requests) : ErrorEvent(k)

SpecFetch == Init /\ [][NextFetch]_vars

\* ------------------------------------------------------------------------
\* The facade's program(), applied once to each pair of strings
\* ------------------------------------------------------------------------
Transforms == {None, Some(Function)}
LoaderEnvs ==
    {[vs |-> [created |-> TRUE, compiles |-> TRUE, log |-> ""],
      fs |-> [created |-> TRUE, compiles |-> TRUE, log |-> ""],
      link |-> [created |-> TRUE, links |-> TRUE, log |-> ""]],
     [vs |-> [created |-> TRUE, compiles |-> FALSE, log |-> "ERROR: 0:1: syntax error"],
      fs |-> [created |-> TRUE, compiles |-> TRUE, log |-> ""],
      link |-> [created |-> TRUE, links |-> TRUE, log |-> ""]]}

\* the facade on a fresh context
InitLoader ==
    /\ gl = InitGL
    /\ buffers = <<>>
    /\ lastLen = <<>>
    /\ program = NoProgram
    /\ queries = [n \in Names |-> 0]
    /\ referenced = {}
    /\ unresolved = {}
    /\ cachedBy = [n \in Names |-> "none"]
    /\ textures = <<>>
    /\ framebuffers = <<>>
    /\ igloo = ReadyIgloo("canvas")
    /\ requests = <<>>
    /\ err = NoError
    /\ op = [name |-> "Igloo"]

\* igloo.program(vertex, fragment, transform?)
MakeProgram(vertex, fragment, transform, nets, env) ==
    /\ igloo.status = "ready"
    /\ program.status = "none"
    /\ LET r == IglooProgram(Fresh(gl), vertex, fragment, transform, nets, env)
       IN  /\ gl' = r.gl
           /\ err' = r.err
           /\ program' = IF r.err.thrown THEN [status |-> "failed"]
                         ELSE [status |-> "linked", uniforms |-> RenderInterface.uniforms,
                               attribs |-> RenderInterface.attribs, vars |-> <<>>]
    /\ op' = [name |-> "program", vertex |-> vertex, fragment |-> fragment,
              transform |-> transform, nets |-> nets]
    /\ UNCHANGED <<buffers, lastLen, queries, referenced, unresolved, cachedBy,
                   textures, framebuffers, igloo, requests>>

NextLoader ==
    \E vertex \in Strings, fragment \in Strings, transform \in Transforms,
       nets \in Responses \X Responses, env \in LoaderEnvs :
        MakeProgram(vertex, fragment, transform, nets, env)

SpecLoader == InitLoader /\ [][NextLoader]_vars

\* ------------------------------------------------------------------------
\* Properties of Buffer
\* ------------------------------------------------------------------------
\* how often an entry point occurs among the calls of one operation
RECURSIVE CallCount(_, _)
CallCount(calls, name) ==
    IF calls = <<>> THEN 0
    ELSE (IF Head(calls).call = name THEN 1 ELSE 0) + CallCount(Tail(calls), name)

\* the byte length of a payload as the context receives it: a plain array
\* arrives as 32-bit floats, a byte array as bytes
PayloadBytes(data) == (IF data.kind = "Uint8Array" THEN 1 ELSE 4) * data.length

\* the payload as the context receives it
PayloadSent(data) == [kind |-> IF data.kind = "Array" THEN "Float32Array" ELSE data.kind,
                      length |-> data.length]

UpdateRan == op.name = "update"
Updated == buffers[op.self]

\* C1: an update whose payload has the byte length of the payload of the same
\* Buffer's previous update does not reallocate: it binds the buffer at its
\* target, issues exactly one bufferSubData at offset zero with the payload,
\* issues no bufferData, and leaves the recorded size as it was.
C1_SameLengthOverwritesInPlace ==
    (UpdateRan /\ op.prevLen = PayloadBytes(op.data)) =>
        /\ gl.calls = <<[call |-> "bindBuffer", target |-> Updated.target,
                         buffer |-> Updated.buffer],
                        [call |-> "bufferSubData", target |-> Updated.target,
                         offset |-> 0, data |-> PayloadSent(op.data)]>>
        /\ CallCount(gl.calls, "bufferData") = 0
        /\ Updated.size = op.sizeBefore

\* a second update of a Buffer with a non-empty payload of the same byte length
C1_Witness ==
    /\ UpdateRan
    /\ op.prevLen = PayloadBytes(op.data)
    /\ PayloadBytes(op.data) > 0
    /\ CallCount(gl.calls, "bufferSubData") = 1

\* C2: an update whose payload byte length differs from the recorded size
\* (the first update of a fresh Buffer and an empty payload included) issues
\* exactly one bufferData and no bufferSubData, and afterwards the recorded
\* size is the payload's byte length.
C2_ChangedLengthReallocates ==
    (UpdateRan /\ op.sizeBefore # PayloadBytes(op.data)) =>
        /\ CallCount(gl.calls, "bufferData") = 1
        /\ CallCount(gl.calls, "bufferSubData") = 0
        /\ gl.calls[Len(gl.calls)] =
               [call |-> "bufferData", target |-> Updated.target,
                data |-> PayloadSent(op.data),
                usage |-> IF op.usage = undefined THEN "DYNAMIC_DRAW" ELSE op.usage]
        /\ Updated.size = PayloadBytes(op.data)

\* a Buffer that held storage is updated with an empty payload
C2_Witness ==
    /\ UpdateRan
    /\ op.sizeBefore > 0
    /\ PayloadBytes(op.data) = 0
    /\ CallCount(gl.calls, "bufferData") = 1

RECURSIVE UploadCount(_)
UploadCount(calls) ==
    IF calls = <<>> THEN 0
    ELSE (IF Head(calls).call \in GLUniformMethods THEN 1 ELSE 0)
         + UploadCount(Tail(calls))

LastCall == gl.calls[Len(gl.calls)]

\* the last operation named a program variable / set a uniform
UniformRan == Linked /\ op.name \in {"uniform", "uniformi"}
OpInteger == IF op.name = "uniformi" THEN TRUE ELSE op.i = Some(TRUE)
OpDim == IF op.name = "uniformi" THEN None ELSE op.dim
Cached == Lookup(program.vars, op.var)

ArrayLike(value) == value.tag \in {"Array", "Float32Array"}
NumberOrBoolean(value) == value.tag \in {"Number", "Boolean"}

LookupError(name) == Error(<<"Failed to locate uniform", name>>)
InvalidValueError(value) == Error(<<"Invalid uniform value: ", value.tag>>)

C5_UnresolvedUniformIsLookupError ==
    (Linked /\ op.name \in {"uniform", "uniformi", "matrix"}
            /\ op.var \notin program.uniforms) =>
        /\ err = LookupError(op.var)
        /\ QueryCount(gl.calls, op.var) = 1
        /\ UploadCount(gl.calls) = 0
        /\ ~HasOwn(program.vars, op.var)

\* the vector entry point for a component count and a variant
VectorMethod(n, integer) ==
    CASE n = 1 -> IF integer THEN "uniform1iv" ELSE "uniform1fv"
      [] n = 2 -> IF integer THEN "uniform2iv" ELSE "uniform2fv"
      [] n = 3 -> IF integer THEN "uniform3iv" ELSE "uniform3fv"
      [] n = 4 -> IF integer THEN "uniform4iv" ELSE "uniform4fv"

\* C6: uniform with a name that is a uniform of the program and an array
\* or typed-array value issues exactly one upload, to the vector entry point
\* of dim components when dim is given and of as many components as the
\* array has otherwise, in the integer variant exactly when the integer flag
\* is true, passing the cached location and the array itself.
C6_VectorDispatch ==
    (UniformRan /\ op.var \in program.uniforms /\ ArrayLike(op.value)) =>
        /\ UploadCount(gl.calls) = 1
        /\ LastCall =
               [call |-> VectorMethod(IF Given(OpDim) THEN OpDim[1]
                                      ELSE op.value.length, OpInteger),
                location |-> Cached,
                value |-> op.value]

\* dim = 2 with an array of 4 elements, floating point
C6_Witness ==
    /\ UniformRan
    /\ op.name = "uniform"
    /\ op.var \in program.uniforms
    /\ op.dim = Some(2)
    /\ op.value.length = 4
    /\ op.i = Some(FALSE)
    /\ ~err.thrown
    /\ LastCall.call = "uniform2fv"

\* C7: matrix with a name that is a uniform of the program and 4, 9 or 16
\* elements issues exactly one upload, to uniformMatrix2fv, uniformMatrix3fv
\* or uniformMatrix4fv respectively, passing the cached location, the
\* transpose flag as a boolean (false when omitted) and the matrix itself.
C7_MatrixDispatch ==
    (Linked /\ op.name = "matrix" /\ op.var \in program.uniforms
            /\ op.value.length \in {4, 9, 16}) =>
        /\ UploadCount(gl.calls) = 1
        /\ LastCall =
               [call |-> CASE op.value.length = 4 -> "uniformMatrix2fv"
                           [] op.value.length = 9 -> "uniformMatrix3fv"
                           [] op.value.length = 16 -> "uniformMatrix4fv",
                location |-> Cached,
                transpose |-> (op.transpose = Some(TRUE)),
                value |-> op.value]

\* a 9-element matrix with the transpose flag omitted
C7_Witness ==
    /\ Linked
    /\ op.name = "matrix"
    /\ op.value.length = 9
    /\ op.transpose = None
    /\ ~err.thrown
    /\ LastCall.call = "uniformMatrix3fv"
    /\ LastCall.transpose = FALSE

ConstructRan == op.name = "Program"
VertexFails == op.env.link.created /\ op.env.vs.created /\ ~op.env.vs.compiles
FragmentFails ==
    /\ op.env.link.created
    /\ op.env.vs.compiles
    /\ op.env.fs.created
    /\ ~op.env.fs.compiles
LinkFails ==
    /\ op.env.link.created
    /\ op.env.vs.compiles
    /\ op.env.fs.compiles
    /\ ~op.env.link.links

\* an error that carries the driver's log, or the fallback when the log is empty
Carrying(log, fallback) == Error(<<IF log = "" THEN fallback ELSE log>>)

\* calls naming one shader among the calls of one operation
RECURSIVE ShaderCalls(_, _)
ShaderCalls(calls, shader) ==
    IF calls = <<>> THEN 0
    ELSE (IF Head(calls).call \in {"shaderSource", "compileShader", "attachShader"}
             /\ Head(calls).shader = shader
          THEN 1 ELSE 0) + ShaderCalls(Tail(calls), shader)

\* C9: a construction in which the vertex or the fragment shader fails to
\* compile throws the compile error with the driver's log and never calls
\* linkProgram; when it is the vertex shader that fails, no fragment shader
\* is created, compiled or attached, and the vertex shader is not attached.
C9_CompileErrorBeforeLink ==
    ConstructRan =>
        /\ VertexFails =>
               /\ err = Carrying(op.env.vs.log, "Failed to compile shader")
               /\ CallCount(gl.calls, "linkProgram") = 0
               /\ CallCount(gl.calls, "createShader") = 1
               /\ CallCount(gl.calls, "compileShader") = 1
               /\ CallCount(gl.calls, "attachShader") = 0
               /\ ShaderCalls(gl.calls, FragmentHandle) = 0
        /\ FragmentFails =>
               /\ err = Carrying(op.env.fs.log, "Failed to compile shader")
               /\ CallCount(gl.calls, "linkProgram") = 0
               /\ CallCount(gl.calls, "attachShader") = 1
        /\ (VertexFails \/ FragmentFails) => program.status = "failed"

\* the vertex shader failed with a log although the fragment shader and the
\* link would have succeeded
C9_Witness ==
    /\ ConstructRan
    /\ VertexFails
    /\ op.env.vs.log # ""
    /\ op.env.fs.compiles
    /\ op.env.link.links
    /\ err.thrown

\* C10: a construction completes normally exactly when both shaders compile
\* and the link succeeds; when both compile and the link status is false it
\* throws the link error with the driver's log, or the fixed message when the
\* log is empty; in no case is a shader compiled twice or the program linked
\* twice.
C10_LinkErrorNoRetry ==
    ConstructRan =>
        /\ ~err.thrown <=>
               (op.env.vs.compiles /\ op.env.fs.compiles /\ op.env.link.links)
        /\ ~err.thrown <=> Linked
        /\ LinkFails => err = Carrying(op.env.link.log, "Failed to link program")
        /\ LinkFails => CallCount(gl.calls, "linkProgram") = 1
        /\ CallCount(gl.calls, "linkProgram") <= 1
        /\ CallCount(gl.calls, "compileShader") <= 2
        /\ ShaderCalls(gl.calls, VertexHandle) <= 3
        /\ ShaderCalls(gl.calls, FragmentHandle) <= 3

\* both shaders compiled and the link failed with a log
C10_Witness ==
    /\ ConstructRan
    /\ LinkFails
    /\ op.env.link.log # ""
    /\ err.thrown
    /\ CallCount(gl.calls, "compileShader") = 2

\* ------------------------------------------------------------------------
\* Properties of Program.draw, Program.disable and Program.attrib
\* ------------------------------------------------------------------------
RenderError == Error(<<"WebGL rendering error">>)

\* C11: draw(mode, count, type?) issues exactly one draw call -- drawArrays of
\* count vertices from vertex 0 when type is omitted, otherwise drawElements
\* of count indices of that type at offset 0 -- then reads the driver's error
\* flag exactly once and throws the rendering error exactly when the flag is
\* set; no other operation reads the driver's error flag.
C11_DrawReadsErrorFlagOnce ==
    /\ op.name = "draw" =>
          /\ Len(gl.calls) = 2
          /\ IF op.type = undefined
             THEN /\ gl.calls[1].call = "drawArrays"
                  /\ gl.calls[1] = [call |-> "drawArrays", mode |-> op.mode,
                                    first |-> 0, count |-> op.count]
             ELSE /\ gl.calls[1].call = "drawElements"
                  /\ gl.calls[1] = [call |-> "drawElements", mode |-> op.mode,
                                    count |-> op.count, type |-> op.type,
                                    offset |-> 0]
          /\ gl.calls[2].call = "getError"
          /\ err = IF gl.calls[2].result # "NO_ERROR" THEN RenderError ELSE NoError
    /\ op.name # "draw" => CallCount(gl.calls, "getError") = 0

\* an indexed draw found the error flag set and threw
C11_Witness ==
    /\ op.name = "draw"
    /\ op.type # undefined
    /\ LastCall.call = "getError"
    /\ LastCall.result # "NO_ERROR"
    /\ err = RenderError

\* the cache entries filled through attrib
AttribCached == {n \in Names : cachedBy[n] = "attrib"}
DisabledAt(loc) ==
    Cardinality({k \in 1..Len(gl.calls) : gl.calls[k].index = loc})

\* C12: disable() calls disableVertexAttribArray exactly once for each name
\* whose cache entry was filled through attrib, with that name's cached
\* location, and never for a name whose entry was filled through uniform,
\* uniformi or matrix; it removes and changes no cache entry and uploads no
\* uniform.
C12_DisableOnlyAttribs ==
    (Linked /\ op.name = "disable") =>
        /\ \A k \in 1..Len(gl.calls) : gl.calls[k].call = "disableVertexAttribArray"
        /\ Len(gl.calls) = Cardinality(AttribCached)
        /\ \A n \in AttribCached :
               DisabledAt(Lookup(program.vars, n)) =
                   Cardinality({m \in AttribCached : Lookup(program.vars, m) = Lookup(program.vars, n)})
        /\ \A n \in Names \ AttribCached : DisabledAt(Lookup(program.vars, n)) = 0
        /\ program.vars = op.varsBefore

\* disable ran with one name cached through attrib and one through uniform
C12_Witness ==
    /\ Linked
    /\ op.name = "disable"
    /\ \E n, m \in Names : cachedBy[n] = "attrib" /\ cachedBy[m] = "uniform"
    /\ Len(gl.calls) = 1

C13_FacadeFramebuffer ==
    op.name = "framebuffer" =>
        LET fb == framebuffers[op.self].framebuffer
        IN  /\ fb # NoHandle
            /\ gl.calls[1].call = "createFramebuffer"
            /\ gl.calls[1].result = fb
            /\ \A f \in 1..Len(framebuffers) :
                   f # op.self => framebuffers[f].framebuffer # fb
            /\ IF Given(op.texture)
               THEN /\ gl.framebufferBinding = fb
                    /\ gl.framebufferStore[fb] =
                           [NoAttachments EXCEPT
                               !.color[0] = textures[op.texture[1]].texture]
               ELSE /\ Len(gl.calls) = 1
                    /\ gl.framebufferBinding = op.bound
                    /\ gl.framebufferStore[fb] = NoAttachments

\* the facade made a framebuffer around the second texture while another
\* framebuffer was the render target
C13_Witness ==
    /\ op.name = "framebuffer"
    /\ op.texture = Some(2)
    /\ op.bound # NoHandle
    /\ gl.framebufferBinding = framebuffers[op.self].framebuffer
    /\ gl.framebufferBinding # op.bound

\* C14: after framebuffer.attach(texture, i), for every index i and whatever
\* framebuffer was bound before the call, the texture is color attachment i
\* of this framebuffer and the attachments of no other framebuffer have
\* changed.
C14_AttachTargetsOwnFramebuffer ==
    [][op'.name = "attach" =>
          LET self == framebuffers'[op'.self].framebuffer
              i == OrDefault(op'.i, 0)
          IN  /\ gl'.framebufferStore[self].color[i] = textures'[op'.texture].texture
              /\ \A o \in 1..Len(gl.framebufferStore) :
                     o # self => gl'.framebufferStore[o] = gl.framebufferStore[o]]_vars

\* C15: on one Framebuffer the first attachDepth(w, h) creates one depth
\* renderbuffer of size w x h and attaches it; every later attachDepth, of
\* the same or of other dimensions, creates no renderbuffer, allocates no
\* storage and changes no attachment.
C15_DepthCreatedOnce ==
    op.name = "attachDepth" =>
        LET self == framebuffers[op.self]
        IN  IF op.first
            THEN /\ CallCount(gl.calls, "createRenderbuffer") = 1
                 /\ self.renderbuffer # NoHandle
                 /\ gl.renderbufferStore[self.renderbuffer].width = op.width
                 /\ gl.renderbufferStore[self.renderbuffer].height = op.height
                 /\ gl.framebufferStore[self.framebuffer].depth = self.renderbuffer
            ELSE /\ CallCount(gl.calls, "createRenderbuffer") = 0
                 /\ CallCount(gl.calls, "renderbufferStorage") = 0
                 /\ CallCount(gl.calls, "framebufferRenderbuffer") = 0
                 /\ CallCount(gl.calls, "framebufferTexture2D") = 0

\* C16: after the first attachDepth(width, height) on a Framebuffer, whatever
\* renderbuffer was bound before, the renderbuffer that call created is the
\* framebuffer's depth attachment and holds the storage of width x height,
\* and the storage of no other renderbuffer has changed.
C16_DepthStorageOnOwnRenderbuffer ==
    [][(op'.name = "attachDepth" /\ op'.first) =>
          LET self == framebuffers'[op'.self]
          IN  /\ gl'.framebufferStore[self.framebuffer].depth = self.renderbuffer
              /\ gl'.renderbufferStore[self.renderbuffer].width = op'.width
              /\ gl'.renderbufferStore[self.renderbuffer].height = op'.height
              /\ \A o \in 1..Len(gl.renderbufferStore) :
                     gl'.renderbufferStore[o] = gl.renderbufferStore[o]]_vars

\* C18: texture.copy(x, y, width, height) writes the region copied from the
\* bound framebuffer into this texture's own image, whatever texture was
\* bound to TEXTURE_2D before the call, and changes the image of no other
\* texture.
C18_CopyWritesOwnTexture ==
    [][op'.name = "copy" =>
          LET self == textures'[op'.self].texture
          IN  /\ gl'.textureStore[self] =
                     [width |-> op'.width, height |-> op'.height,
                      image |-> "framebuffer"]
              /\ \A o \in 1..Len(gl.textureStore) :
                     o # self => gl'.textureStore[o] = gl.textureStore[o]]_vars

\* ------------------------------------------------------------------------
\* Properties of the facade
\* ------------------------------------------------------------------------
\* C19: when the canvas yields no context (its getContext returns null or
\* throws), Igloo.getContext throws the context error unless noerror is set,
\* and then returns null; when the canvas yields a context, getContext returns
\* it whether noerror is set or not.  new Igloo(canvas) on a canvas that
\* yields no context throws the context error and no facade comes to exist.
C19_ContextErrorUnlessNoerror ==
    /\ op.name = "getContext" =>
          IF op.yields = "context"
          THEN ~err.thrown /\ op.result = Context
          ELSE IF op.noerror = Some(TRUE)
          THEN ~err.thrown /\ op.result = JSnull
          ELSE err = ContextError
    /\ (op.name = "Igloo" /\ op.arg.kind = "HTMLCanvasElement"
           /\ op.arg.yields # "context") =>
          /\ err = ContextError
          /\ igloo = NoIgloo

\* getContext with noerror set returned null from a canvas whose getContext
\* threw
C19_Witness ==
    /\ op.name = "getContext"
    /\ op.yields = "throws"
    /\ op.noerror = Some(TRUE)
    /\ op.result = JSnull
    /\ ~err.thrown

\* C20: igloo.array and igloo.elements return a new Buffer of target
\* ARRAY_BUFFER and ELEMENT_ARRAY_BUFFER respectively; with data they run
\* exactly one update, with the usage STATIC_DRAW unless a usage is given,
\* and the recorded size is the byte length of the data; without data they
\* upload nothing and the size stays unset.  A direct Buffer.update without
\* a usage uploads with DYNAMIC_DRAW.
C20_FacadeBuffersDefaultStatic ==
    /\ op.name \in {"array", "elements"} =>
          LET self == buffers[op.self]
          IN  /\ self.target = IF op.name = "array" THEN "ARRAY_BUFFER"
                               ELSE "ELEMENT_ARRAY_BUFFER"
              /\ gl.calls[1].call = "createBuffer"
              /\ gl.calls[1].result = self.buffer
              /\ \A j \in 1..Len(buffers) :
                     j # op.self => buffers[j].buffer # self.buffer
              /\ IF Given(op.data)
                 THEN /\ Len(gl.calls) = 3
                      /\ gl.calls[2].call = "bindBuffer"
                      /\ gl.calls[2].buffer = self.buffer
                      /\ gl.calls[3].call = "bufferData"
                      /\ gl.calls[3] =
                             [call |-> "bufferData", target |-> self.target,
                              data |-> PayloadSent(op.data[1]),
                              usage |-> OrDefault(op.usage, "STATIC_DRAW")]
                      /\ self.size = PayloadBytes(op.data[1])
                 ELSE /\ Len(gl.calls) = 1
                      /\ self.size = UNSET
    /\ (op.name = "update" /\ op.usage = undefined) =>
          \A k \in 1..Len(gl.calls) :
              gl.calls[k].call = "bufferData" => gl.calls[k].usage = "DYNAMIC_DRAW"

\* igloo.elements with data and no usage uploaded with STATIC_DRAW
C20_Witness ==
    /\ op.name = "elements"
    /\ Given(op.data)
    /\ op.usage = None
    /\ LastCall.call = "bufferData"
    /\ LastCall.usage = "STATIC_DRAW"
    /\ buffers[op.self].size = 4 * MaxLen

\* ------------------------------------------------------------------------
\* Frame effects of attachDepth and of Buffer.update
\* ------------------------------------------------------------------------
\* C24: after every attachDepth, the first one and every later one that finds
\* the renderbuffer in place, the framebuffer bound in the context is this
\* wrapper's framebuffer, whatever was bound before.
C24_AttachDepthAlwaysBinds ==
    op.name = "attachDepth" =>
        /\ gl.framebufferBinding = framebuffers[op.self].framebuffer
        /\ Len(gl.calls) >= 1
        /\ gl.calls[1] = [call |-> "bindFramebuffer", target |-> "FRAMEBUFFER",
                          framebuffer |-> framebuffers[op.self].framebuffer]

\* a later attachDepth ran while another framebuffer was bound
C24_Witness ==
    /\ op.name = "attachDepth"
    /\ ~op.first
    /\ op.bound # NoHandle
    /\ op.bound # framebuffers[op.self].framebuffer
    /\ gl.framebufferBinding = framebuffers[op.self].framebuffer

\* the usage hint the context holds for the store of a Buffer
Hint(g, self) == g.bufferStore[self.buffer].usage

UniformStep(o) == o.name \in {"uniform", "uniformi"}

\* C23: a uniform call that fails on an invalid value has cached the name's
\* location before, so a following uniform call of that name makes no
\* location query; and for a name that is no uniform of the program the
\* lookup error is thrown, not the invalid-value error, whatever the value.
C23_LookupBeforeValue ==
    [][(Linked /\ Linked') =>
          /\ (UniformStep(op') /\ err' = InvalidValueError(op'.value)) =>
                 ~IsNullish(Lookup(program'.vars, op'.var))
          /\ (UniformStep(op) /\ err = InvalidValueError(op.value)
                 /\ UniformStep(op') /\ op'.var = op.var) =>
                 QueryCount(gl'.calls, op.var) = 0
          /\ (UniformStep(op') /\ op'.var \notin program'.uniforms) =>
                 err' = LookupError(op'.var)]_vars

\* ------------------------------------------------------------------------
\* Properties of the driver's error flags
\* ------------------------------------------------------------------------
\* a driver error stays pending across the operations that are not draw
StaysPending == op'.name # "draw" => gl.errors \subseteq gl'.errors
\* the next draw surfaces a pending error, whether or not it raised one
SurfacedByDraw ==
    op'.name = "draw" =>
        err' = IF gl.errors # {} \/ op'.raised # "NO_ERROR" THEN RenderError ELSE NoError

\* C26 as stated: a driver error raised by an earlier wrapper operation stays
\* pending across the operations that are not draw and makes the next draw
\* throw the rendering error even when that draw raised none; that draw's
\* read clears the flag, so an error-free draw that follows a draw succeeds.
C26_FurtherDrawSucceeds ==
    [][/\ StaysPending
       /\ SurfacedByDraw
       /\ (op.name = "draw" /\ op'.name = "draw" /\ op'.raised = "NO_ERROR")
              => err' = NoError]_vars

\* C26 as amended: a driver error raised by an earlier wrapper operation stays
\* pending across the operations that are not draw and makes the next draw
\* throw the rendering error even when that draw raised none; that draw's
\* read clears the one code it returns, so an error-free draw that follows
\* succeeds exactly when no other code is still pending, which is always so on
\* a context that keeps a single flag-code pair.
C26_FurtherDrawSucceedsOnceDrained ==
    [][/\ StaysPending
       /\ SurfacedByDraw
       /\ op'.name = "draw" =>
              /\ Len(gl'.calls) = 2
              /\ gl'.calls[2].call = "getError"
              /\ gl'.errors = (gl.errors \cup
                                (IF op'.raised = "NO_ERROR" \/
                                    (gl.flagPairs = "one" /\ gl.errors # {})
                                 THEN {} ELSE {op'.raised}))
                               \ {gl'.calls[2].result}
              /\ gl'.flagPairs = "one" => gl'.errors = {}
       /\ (op.name = "draw" /\ op'.name = "draw" /\ op'.raised = "NO_ERROR")
              => (err' = NoError <=> gl.errors = {})]_vars

\* a draw that raised no error threw for an error a texture, framebuffer or
\* attrib call had left pending, and left no error pending
C26_Witness ==
    /\ op.name = "draw"
    /\ op.raised = "NO_ERROR"
    /\ op.pending # {}
    /\ err = RenderError
    /\ gl.errors = {}

\* ------------------------------------------------------------------------
\* Properties of Igloo.fetch and of the facade's program()
\* ------------------------------------------------------------------------
\* C22: fetch(url, callback?) opens the request asynchronously exactly when a
\* callback is given. Without one it returns the response text once the
\* response is complete and leaves no request in flight; with one it returns
\* the empty text while the request is still in flight, and the callback is
\* invoked at most once, with the response text, in the step in which the load
\* completes, and never for a request that fails; a request that has
\* completed or failed never changes again.
C22_AsynchronousIffCallback ==
    [][/\ op'.name = "fetch" =>
             /\ Len(gl'.calls) = 2
             /\ gl'.calls[1].call = "open"
             /\ gl'.calls[1] = [call |-> "open", method |-> "GET", url |-> op'.url,
                                async |-> Given(op'.callback)]
             /\ gl'.calls[2].call = "send"
             /\ IF Given(op'.callback)
                THEN /\ ~err'.thrown
                     /\ op'.result = EmptyText
                     /\ Len(requests') = Len(requests) + 1
                     /\ requests'[Len(requests')].url = op'.url
                     /\ requests'[Len(requests')].state = "sent"
                     /\ requests'[Len(requests')].delivered = <<>>
                ELSE /\ requests' = requests
                     /\ IF op'.net.outcome = "load"
                        THEN ~err'.thrown /\ op'.result = op'.net.text
                        ELSE err' = NetworkError
       /\ \A k \in 1..Len(requests) :
             /\ Len(requests') >= k
             /\ requests[k].state # "sent" => requests'[k] = requests[k]
             /\ requests'[k].delivered # requests[k].delivered =>
                    /\ op'.name = "load event"
                    /\ op'.request = k
                    /\ requests[k].state = "sent"
                    /\ requests'[k].state = "loaded"
                    /\ requests'[k].delivered = <<op'.text>>
             /\ requests'[k].state = "loaded" =>
                    requests'[k].delivered = <<requests'[k].responseText>>
             /\ requests'[k].state = "failed" => requests'[k].delivered = <<>>]_vars

\* one request has loaded and its callback has been invoked once with the
\* response text, another has failed and its callback has not been invoked
C22_Witness ==
    /\ op.name = "load event"
    /\ requests[op.request].delivered = <<op.text>>
    /\ \E j \in 1..Len(requests) :
           requests[j].state = "failed" /\ requests[j].delivered = <<>>

\* a string without a whitespace character; the calls that set shader sources
NoWhitespace(string) == \A k \in 1..Len(string) : string[k] \notin {" ", "\n"}
IsShaderSource(c) == c.call = "shaderSource"
SourcesCompiled ==
    LET set == SelectSeq(gl.calls, IsShaderSource)
    IN  [k \in 1..Len(set) |-> set[k].source]
Request(url) ==
    <<[call |-> "open", method |-> "GET", url |-> url, async |-> FALSE],
      [call |-> "send"]>>

\* C21: program(vertex, fragment, transform?) first fetches, synchronously and
\* vertex before fragment, each string that has no whitespace character and
\* no other; then calls transform, when given, once on each resulting text,
\* vertex first; and only then constructs the Program, whose shaders are
\* given the transformed, fetched texts and never the URL strings.
C21_FetchTransformCompile ==
    op.name = "program" =>
        LET fetchV == NoWhitespace(op.vertex)
            fetchF == NoWhitespace(op.fragment)
            failV == fetchV /\ op.nets[1].outcome = "error"
            failF == ~failV /\ fetchF /\ op.nets[2].outcome = "error"
            textV == IF fetchV THEN op.nets[1].text ELSE op.vertex
            textF == IF fetchF THEN op.nets[2].text ELSE op.fragment
            given == Given(op.transform)
            srcV == IF given THEN <<"#">> \o textV ELSE textV
            srcF == IF given THEN <<"#">> \o textF ELSE textF
            fetches == (IF fetchV THEN Request(op.vertex) ELSE <<>>)
                       \o (IF fetchF /\ ~failV THEN Request(op.fragment) ELSE <<>>)
            transforms == IF given
                          THEN <<[call |-> "transform", text |-> textV, result |-> srcV],
                                 [call |-> "transform", text |-> textF, result |-> srcF]>>
                          ELSE <<>>
            n == Len(fetches) + Len(transforms)
        IN  /\ Len(gl.calls) >= Len(fetches)
            /\ \A k \in 1..Len(fetches) :
                   gl.calls[k].call = fetches[k].call /\ gl.calls[k] = fetches[k]
            /\ requests = <<>>
            /\ IF failV \/ failF
               THEN Len(gl.calls) = Len(fetches) /\ err = NetworkError
               ELSE /\ Len(gl.calls) > n
                    /\ \A k \in 1..Len(transforms) :
                           /\ gl.calls[Len(fetches) + k].call = "transform"
                           /\ gl.calls[Len(fetches) + k] = transforms[k]
                    /\ gl.calls[n + 1].call = "createProgram"
                    /\ \A k \in (n + 1)..Len(gl.calls) :
                           gl.calls[k].call \notin {"open", "send", "transform"}
                    /\ Len(SourcesCompiled) >= 1
                    /\ SourcesCompiled =
                           SubSeq(<<srcV, srcF>>, 1, Len(SourcesCompiled))
                    /\ err.thrown \/ SourcesCompiled = <<srcV, srcF>>
                    /\ fetchV => SourcesCompiled[1] # op.vertex
                    /\ (fetchF /\ Len(SourcesCompiled) = 2) =>
                           SourcesCompiled[2] # op.fragment

\* a vertex URL was fetched, a fragment source with whitespace was not, both
\* texts were transformed and the Program was built from them
C21_Witness ==
    /\ op.name = "program"
    /\ Len(op.vertex) >= 1
    /\ NoWhitespace(op.vertex)
    /\ ~NoWhitespace(op.fragment)
    /\ Given(op.transform)
    /\ ~err.thrown
    /\ SourcesCompiled = <<(<<"#">> \o op.nets[1].text), (<<"#">> \o op.fragment)>>

====
